---- MODULE Spec2Model ----
(***************************************************************************)
(* Knob and Slider (src/src/knob.ts): the pointer-to-quantized-value       *)
(* engine, its drag state machine, power/toggle gate, change notifier and  *)
(* destroy().                                                              *)
(*                                                                         *)
(* Numbers.  A JavaScript number is modelled as an integer count of        *)
(* 1/Scale units (exact rational arithmetic; binary floating-point         *)
(* rounding error is not modelled).  NaN, +Infinity and -Infinity are      *)
(* sentinel integers outside the finite range; every arithmetic operator   *)
(* below treats them as IEEE-754 does.  Pixel quantities (clientY, deltaY, *)
(* pixelsPerFullRotation, trackLength) are plain integers.                 *)
(***************************************************************************)
EXTENDS Integers, Sequences, FiniteSets, TLC

\* ------------------------------------------------------------------ bounds
\* Pointer coordinates are GridPx * (0..MaxY).
MaxY == 1
\* Min-only and infinite knobs: drags are followed while |raw| <= MaxAbs.
MaxAbs == 5

\* ----------------------------------------------------------------- numbers
Scale == 6 * 100
GridPx == 2 * 100
Huge == Scale * Scale * Scale
PosInf == Huge
NegInf == 0 - Huge
NaN == Huge + 1
\* An option that was not given (undefined) behaves as NaN in arithmetic.
Undefined == NaN

\* n as a number of the model (n is an integer of the source)
N(n) == n * Scale
\* n/d as a number of the model
Q(n, d) == (n * Scale) \div d

IsFinite(x) == x \notin {NaN, PosInf, NegInf}

\* a + b
Add(a, b) ==
  IF a = NaN \/ b = NaN THEN NaN
  ELSE IF a = PosInf THEN (IF b = NegInf THEN NaN ELSE PosInf)
  ELSE IF a = NegInf THEN (IF b = PosInf THEN NaN ELSE NegInf)
  ELSE IF ~IsFinite(b) THEN b
  ELSE a + b

\* a - b
Sub(a, b) ==
  Add(a, IF b = NaN THEN NaN ELSE IF b = PosInf THEN NegInf
         ELSE IF b = NegInf THEN PosInf ELSE 0 - b)

Sign(a) == IF a > 0 THEN 1 ELSE IF a < 0 THEN 0 - 1 ELSE 0

\* a * b, both in 1/Scale units
Mul(a, b) ==
  IF a = NaN \/ b = NaN THEN NaN
  ELSE IF ~IsFinite(a) \/ ~IsFinite(b)
       THEN (IF a = 0 \/ b = 0 THEN NaN
             ELSE IF Sign(a) * Sign(b) > 0 THEN PosInf ELSE NegInf)
  ELSE (a * b) \div Scale

\* a / b, both in 1/Scale units
Div(a, b) ==
  IF a = NaN \/ b = NaN THEN NaN
  ELSE IF ~IsFinite(a)
       THEN (IF ~IsFinite(b) THEN NaN
             ELSE IF (a > 0) = (b >= 0) THEN PosInf ELSE NegInf)
  ELSE IF ~IsFinite(b) THEN 0
  ELSE IF b = 0
       THEN (IF a = 0 THEN NaN ELSE IF a > 0 THEN PosInf ELSE NegInf)
  ELSE IF b > 0 THEN (a * Scale) \div b
  ELSE ((0 - a) * Scale) \div (0 - b)

\* Math.max(a, b)
MathMax(a, b) == IF a = NaN \/ b = NaN THEN NaN ELSE IF a >= b THEN a ELSE b

\* Math.min(a, b)
MathMin(a, b) == IF a = NaN \/ b = NaN THEN NaN ELSE IF a <= b THEN a ELSE b

\* A faulty rounding, for comparison: halves go away from zero.
MathRound_HalfAwayFromZero(x) ==
  IF ~IsFinite(x) THEN x
  ELSE IF x >= 0 THEN ((2 * x + Scale) \div (2 * Scale)) * Scale
  ELSE 0 - ((2 * (0 - x) + Scale) \div (2 * Scale)) * Scale

\* Math.round(x): the nearest integer, halves toward +Infinity
MathRound(x) ==
  IF ~IsFinite(x) THEN x ELSE ((2 * x + Scale) \div (2 * Scale)) * Scale

\* a !== b
StrictNeq(a, b) == a = NaN \/ b = NaN \/ a # b

\* ------------------------------------------------------- program constants
\* globalConfig as the module initialises it
DefaultPixelsPerFullRotation == 400
DefaultShiftMultiplier == 4
\* globalConfig.ctrlMultiplier is 0.25 = 1 / CtrlDivisor
CtrlDivisor == 4
\* DEFAULT_OPTIONS.startAngle, endAngle
DefaultStartAngle == -135
DefaultEndAngle == 135
\* DEFAULT_SLIDER_OPTIONS.length
DefaultLength == 150
\* SliderSVGRenderer.getTopY
TopY == 10
\* the reference range of min-only and infinite knobs
ReferenceRange == 10
\* total rotation of the reference range, in degrees
ReferenceRotation == 270
\* DEGREES_PER_UNIT
DegreesPerUnit == ReferenceRotation \div ReferenceRange

InitialGlobalConfig ==
  [pixelsPerFullRotation |-> DefaultPixelsPerFullRotation,
   shiftMultiplier |-> N(DefaultShiftMultiplier),
   ctrlMultiplier |-> Q(1, CtrlDivisor)]

\* DEFAULT_OPTIONS of the Knob, with the fields the engine reads
DEFAULT_OPTIONS ==
  [mode |-> "bounded", value |-> 0, step |-> N(1),
   min |-> Undefined, max |-> Undefined,
   startAngle |-> N(DefaultStartAngle), endAngle |-> N(DefaultEndAngle),
   toggleable |-> FALSE, powered |-> TRUE, glow |-> FALSE]

\* DEFAULT_SLIDER_OPTIONS, with the fields the engine reads
DEFAULT_SLIDER_OPTIONS ==
  [value |-> 0, min |-> 0, max |-> N(10), step |-> Q(1, 10),
   length |-> DefaultLength, showToggle |-> FALSE, toggleState |-> FALSE]

\* { ...defaults, ...given }
Merge(defaults, given) ==
  [f \in DOMAIN defaults |-> IF f \in DOMAIN given THEN given[f] ELSE defaults[f]]

\* a ?? b
Coalesce(a, b) == IF a = Undefined THEN b ELSE a

\* The option objects the controls are constructed with.
KnobOptionSets ==
  { [mode |-> "bounded", min |-> 0, max |-> N(8), step |-> N(2),
     value |-> N(4), toggleable |-> TRUE, powered |-> FALSE],
    [mode |-> "bounded", min |-> 0, max |-> N(8), step |-> N(3),
     value |-> N(11), toggleable |-> TRUE],
    [mode |-> "min-only", min |-> Q(5, 4), step |-> N(5), value |-> Q(5, 4)],
    [mode |-> "infinite", step |-> Q(5, 2)] }

SliderOptionSets ==
  { [max |-> N(8), length |-> 200, step |-> N(2), showToggle |-> TRUE],
    [max |-> N(8), length |-> 200, step |-> N(3), value |-> N(11),
     toggleState |-> TRUE] }

Callbacks == {"f"}
Ys == {GridPx * k : k \in 0..MaxY}
\* arguments of setValue (besides the current value)
SetArgs == {N(0 - 5), N(5), N(15), NaN, PosInf, NegInf}

VARIABLES
  globalConfig,          \* the module-level globalConfig object
  kind,                  \* "Knob" or "Slider"; "none" before construction
  options,               \* this.options
  pixelsPerFullRotation, \* Knob: resolved sensitivity
  shiftMultiplier,
  ctrlMultiplier,
  trackLength,           \* Slider: renderer.getTrackLength()
  handles,               \* the svg elements the control holds
  value,                 \* the stepped value, getValue()
  rawValue,              \* the unrounded value
  angle,                 \* Knob: this.angle
  thumbY,                \* Slider: translateY of the thumb
  visuals,               \* Knob: the style of each element it holds
  powered,               \* Knob: power state
  toggleState,           \* Slider: toggle state
  isDragging,
  lastY,
  changeCallbacks,       \* Set in insertion order
  toggleCallbacks,
  docListeners,          \* listeners of this control registered on document
  elemListeners,         \* listeners of this control on its container / svg
  destroyed,             \* history: destroy() has been called
  staleDrag,             \* history: destroy() ran during the drag in progress
  press,                 \* platform: left button "none", "down", "moved"
  clickPending,          \* platform: click that follows a release
  notified,              \* history: the events the last operation delivered
  thrown,                \* history: a constructor has thrown
  stroke                 \* history: where the last left-button press began

vars ==
  <<globalConfig, kind, options, pixelsPerFullRotation, shiftMultiplier, ctrlMultiplier,
    trackLength, handles, value, rawValue, angle, thumbY, visuals, powered,
    toggleState, isDragging, lastY, changeCallbacks, toggleCallbacks, docListeners,
    elemListeners, destroyed, staleDrag, press, clickPending, notified,
    thrown, stroke>>

config == <<globalConfig, kind, options, pixelsPerFullRotation,
            shiftMultiplier, ctrlMultiplier, trackLength, handles, thrown,
            stroke>>

\* ------------------------------------------------------------ pure parts
\* A faulty value range, for comparison: the reference range in every mode.
getValueRange_Reference == N(ReferenceRange)

\* Knob.getValueRange
getValueRange ==
  CASE options.mode = "bounded" -> Sub(options.max, options.min)
    [] options.mode = "min-only" -> N(ReferenceRange)
    [] options.mode = "infinite" -> N(ReferenceRange)

\* A faulty valueToAngle, for comparison: a bounded Knob turns through the
\* reference rotation whatever its start and end angles are.
valueToAngle_ReferenceRotation(opts, v) ==
  CASE opts.mode = "infinite" ->
         Mul(v, Div(N(ReferenceRotation), N(ReferenceRange)))
    [] opts.mode = "min-only" ->
         Div(Mul(Sub(v, opts.min), N(ReferenceRotation)), N(ReferenceRange))
    [] opts.mode = "bounded" ->
         LET valueRange == Sub(opts.max, opts.min)
             normalizedValue == Div(Sub(v, opts.min), valueRange)
         IN Add(opts.startAngle, Mul(normalizedValue, N(ReferenceRotation)))

\* Knob.valueToAngle
valueToAngle(opts, v) ==
  CASE opts.mode = "infinite" ->
         Mul(v, Div(N(ReferenceRotation), N(ReferenceRange)))
    [] opts.mode = "min-only" ->
         Div(Mul(Sub(v, opts.min), N(ReferenceRotation)), N(ReferenceRange))
    [] opts.mode = "bounded" ->
         LET valueRange == Sub(opts.max, opts.min)
             angleRange == Sub(opts.endAngle, opts.startAngle)
             normalizedValue == Div(Sub(v, opts.min), valueRange)
         IN Add(opts.startAngle, Mul(normalizedValue, angleRange))

\* Slider.updateVisuals: the thumb's translateY
thumbPosition(opts, len, raw) ==
  LET valueRange == Sub(opts.max, opts.min)
      normalizedValue == Div(Sub(raw, opts.min), valueRange)
  IN Add(N(TopY), Mul(N(len), Sub(N(1), normalizedValue)))

\* SVGRenderer.createSVG, Knob.render: the elements of the svg that the
\* Knob holds
KnobHandles(opts) ==
  {"dial"} \cup (IF opts.glow THEN {"glow"} ELSE {})
           \cup (IF opts.toggleable THEN {"power"} ELSE {})

\* SliderSVGRenderer, Slider.render
SliderHandles == {"thumb"}

\* Knob.updateVisuals: the style of each element held, as the angle, the
\* value and the power state determine it
updateVisuals(held, a, v, p) ==
  [element \in held |->
     CASE element = "dial" -> [rotate |-> a]
       [] element = "glow" -> [lit |-> p, value |-> IF p THEN v ELSE 0]
       [] element = "power" -> [lit |-> p, value |-> 0]]

\* A faulty bounds check, for comparison: the upper bound is not applied.
KnobClamp_NoUpper(newValue) ==
  CASE options.mode = "infinite" -> newValue
    [] options.mode = "min-only" -> MathMax(options.min, newValue)
    [] options.mode = "bounded" -> MathMax(options.min, newValue)

\* Knob.updateValue: the bounds check of the mode
KnobClamp(newValue) ==
  CASE options.mode = "infinite" -> newValue
    [] options.mode = "min-only" -> MathMax(options.min, newValue)
    [] options.mode = "bounded" ->
         MathMax(options.min, MathMin(options.max, newValue))

\* Slider.updateValue: clamp to bounds
SliderClamp(newValue) == MathMax(options.min, MathMin(options.max, newValue))

\* Math.round(raw / step) * step
RoundToStep(raw, step) == Mul(MathRound(Div(raw, step)), step)

\* A faulty value delta, for comparison: the modifiers are tested with
\* else-if, so that Ctrl is ignored while Shift is held.
KnobValueDelta_ElseIf(deltaY, shiftKey, ctrlKey) ==
  LET fraction == (deltaY * Scale) \div pixelsPerFullRotation
      scaled == IF shiftKey THEN Mul(fraction, shiftMultiplier)
                ELSE IF ctrlKey THEN Mul(fraction, ctrlMultiplier)
                ELSE fraction
  IN Mul(scaled, getValueRange)

\* Knob.processDrag: the value delta of a move of deltaY pixels
KnobValueDelta(deltaY, shiftKey, ctrlKey) ==
  LET fraction == (deltaY * Scale) \div pixelsPerFullRotation
      shifted == IF shiftKey THEN Mul(fraction, shiftMultiplier) ELSE fraction
      slowed == IF ctrlKey THEN Mul(shifted, ctrlMultiplier) ELSE shifted
  IN Mul(slowed, getValueRange)

\* A faulty Slider delta, for comparison: the pixels of a full travel are
\* the process-wide pixelsPerFullRotation.
SliderValueDelta_GlobalPixels(deltaY, shiftKey, ctrlKey) ==
  LET valueRange == Sub(options.max, options.min)
      delta == Mul((deltaY * Scale) \div globalConfig.pixelsPerFullRotation,
                   valueRange)
      shifted == IF shiftKey THEN Mul(delta, shiftMultiplier) ELSE delta
  IN IF ctrlKey THEN Mul(shifted, ctrlMultiplier) ELSE shifted

\* Slider.processDrag: the value delta of a move of deltaY pixels
SliderValueDelta(deltaY, shiftKey, ctrlKey) ==
  LET valueRange == Sub(options.max, options.min)
      delta == Mul((deltaY * Scale) \div trackLength, valueRange)
      shifted == IF shiftKey THEN Mul(delta, shiftMultiplier) ELSE delta
  IN IF ctrlKey THEN Mul(shifted, ctrlMultiplier) ELSE shifted

ValueDelta(deltaY, shiftKey, ctrlKey) ==
  IF kind = "Knob" THEN KnobValueDelta(deltaY, shiftKey, ctrlKey)
  ELSE SliderValueDelta(deltaY, shiftKey, ctrlKey)

\* ------------------------------------------------------------ construction
\* an absent option or config field
Given(given, field) == IF field \in DOMAIN given THEN given[field] ELSE Undefined

\* A faulty constructor, for comparison: bounds that are not given stay
\* undefined.
NewKnob_NoDefaults(given, global) ==
  LET merged == Merge(DEFAULT_OPTIONS, given)
      opts == merged
  IN [kind |-> "Knob",
      options |-> opts,
      pixelsPerFullRotation |->
        Coalesce(Given(given, "pixelsPerFullRotation"), global.pixelsPerFullRotation),
      shiftMultiplier |->
        Coalesce(Given(given, "shiftMultiplier"), global.shiftMultiplier),
      ctrlMultiplier |->
        Coalesce(Given(given, "ctrlMultiplier"), global.ctrlMultiplier),
      trackLength |-> 0,
      value |-> opts.value,
      rawValue |-> opts.value,
      powered |-> opts.powered,
      toggleState |-> FALSE,
      angle |-> valueToAngle(opts, opts.value),
      thumbY |-> 0,
      handles |-> KnobHandles(opts),
      visuals |-> updateVisuals(KnobHandles(opts),
                                valueToAngle(opts, opts.value),
                                opts.value, opts.powered),
      elemListeners |-> {"mousedown", "touchstart", "contextmenu"}
                          \cup (IF opts.toggleable THEN {"click"} ELSE {})]

\* new Knob(container, given): the fields the constructor sets
NewKnob(given, global) ==
  LET merged == Merge(DEFAULT_OPTIONS, given)
      opts == IF merged.mode = "bounded"
                THEN [merged EXCEPT !.min = Coalesce(@, 0),
                                    !.max = Coalesce(@, N(10))]
              ELSE IF merged.mode = "min-only"
                THEN [merged EXCEPT !.min = Coalesce(@, 0)]
              ELSE merged
  IN [kind |-> "Knob",
      options |-> opts,
      pixelsPerFullRotation |->
        Coalesce(Given(given, "pixelsPerFullRotation"), global.pixelsPerFullRotation),
      shiftMultiplier |->
        Coalesce(Given(given, "shiftMultiplier"), global.shiftMultiplier),
      ctrlMultiplier |->
        Coalesce(Given(given, "ctrlMultiplier"), global.ctrlMultiplier),
      trackLength |-> 0,
      value |-> opts.value,
      rawValue |-> opts.value,
      powered |-> opts.powered,
      toggleState |-> FALSE,
      angle |-> valueToAngle(opts, opts.value),
      thumbY |-> 0,
      handles |-> KnobHandles(opts),
      visuals |-> updateVisuals(KnobHandles(opts),
                                valueToAngle(opts, opts.value),
                                opts.value, opts.powered),
      elemListeners |-> {"mousedown", "touchstart", "contextmenu"}
                          \cup (IF opts.toggleable THEN {"click"} ELSE {})]

\* new Slider(container, given): the fields the constructor sets
NewSlider(given, global) ==
  LET opts == Merge(DEFAULT_SLIDER_OPTIONS, given)
  IN [kind |-> "Slider",
      options |-> opts,
      pixelsPerFullRotation |-> 0,
      shiftMultiplier |->
        Coalesce(Given(given, "shiftMultiplier"), global.shiftMultiplier),
      ctrlMultiplier |->
        Coalesce(Given(given, "ctrlMultiplier"), global.ctrlMultiplier),
      trackLength |-> opts.length,
      value |-> opts.value,
      rawValue |-> opts.value,
      powered |-> FALSE,
      toggleState |-> opts.toggleState,
      angle |-> 0,
      thumbY |-> thumbPosition(opts, opts.length, opts.value),
      handles |-> SliderHandles,
      visuals |-> <<>>,
      elemListeners |-> {"mousedown", "touchstart", "contextmenu"}
                          \cup (IF opts.showToggle THEN {"toggleClick"} ELSE {})]

\* the control is as the constructor left it
IsNew(c) ==
  /\ kind = c.kind
  /\ options = c.options
  /\ pixelsPerFullRotation = c.pixelsPerFullRotation
  /\ shiftMultiplier = c.shiftMultiplier
  /\ ctrlMultiplier = c.ctrlMultiplier
  /\ trackLength = c.trackLength
  /\ value = c.value
  /\ rawValue = c.rawValue
  /\ powered = c.powered
  /\ toggleState = c.toggleState
  /\ angle = c.angle
  /\ thumbY = c.thumbY
  /\ handles = c.handles
  /\ visuals = c.visuals
  /\ elemListeners = c.elemListeners

\* a control constructed while globalConfig is as the module initialises it
KnobInit(given) ==
  globalConfig = InitialGlobalConfig /\ IsNew(NewKnob(given, InitialGlobalConfig))

SliderInit(given) ==
  globalConfig = InitialGlobalConfig /\ IsNew(NewSlider(given, InitialGlobalConfig))

\* the fields both constructors leave at their initial values
\* no left-button press has been followed yet
NoStroke == [pressed |-> FALSE, y |-> 0, raw |-> 0,
             shiftKey |-> FALSE, ctrlKey |-> FALSE]

Untouched ==
  /\ isDragging = FALSE
  /\ lastY = 0
  /\ changeCallbacks = <<>>
  /\ toggleCallbacks = <<>>
  /\ docListeners = {}
  /\ destroyed = FALSE
  /\ staleDrag = FALSE
  /\ press = "none"
  /\ clickPending = "none"
  /\ notified = <<>>
  /\ thrown = FALSE
  /\ stroke = NoStroke

Init ==
  /\ \/ \E given \in KnobOptionSets : KnobInit(given)
     \/ \E given \in SliderOptionSets : SliderInit(given)
  /\ Untouched

\* --------------------------------------------------------------- notifier
\* What a subscriber does when it is invoked: "f" and "g" only record the
\* event; "u" calls off('change', f) and off('toggle', f) on the control.
Unsubscribes(cb) == IF cb = "u" THEN {"f"} ELSE {}

\* Set.prototype.forEach from position i on: the entries are visited in
\* insertion order, and an entry deleted before it is visited is not visited
RECURSIVE ForEachFrom(_, _)
ForEachFrom(set, i) ==
  IF i > Len(set) THEN <<>>
  ELSE LET cb == set[i]
           gone == {j \in 1..i : set[j] \in Unsubscribes(cb)}
           rest == SelectSeq(set, LAMBDA x : x \notin Unsubscribes(cb))
       IN <<cb>> \o ForEachFrom(rest, (i + 1) - Cardinality(gone))

\* callbacks.forEach(cb => cb(event)): the callbacks invoked, in order
forEach(set) == ForEachFrom(set, 1)

\* a subscriber Set after the callbacks of the events have run
AfterCallbacks(set, events) ==
  SelectSeq(set, LAMBDA x :
    \A i \in 1..Len(events) : x \notin Unsubscribes(events[i].cb))

\* Knob.emitChange / Slider.emitChange: one event per subscriber visited,
\* in the order of the Set (v, a, p: the control's value, angle and power
\* state when the event is built)
emitChange(previousValue, v, a, p) ==
  LET visited == forEach(changeCallbacks)
  IN [i \in 1..Len(visited) |->
       IF kind = "Knob"
         THEN [type |-> "change", cb |-> visited[i], value |-> v,
               previousValue |-> previousValue, angle |-> a, powered |-> p]
         ELSE [type |-> "change", cb |-> visited[i], value |-> v,
               previousValue |-> previousValue]]

\* Knob.emitToggle
KnobEmitToggle(p, v) ==
  LET visited == forEach(toggleCallbacks)
  IN [i \in 1..Len(visited) |->
       [type |-> "toggle", cb |-> visited[i], powered |-> p, value |-> v]]

\* Slider.emitToggle
SliderEmitToggle(previousState, state) ==
  LET visited == forEach(toggleCallbacks)
  IN [i \in 1..Len(visited) |->
       [type |-> "toggle", cb |-> visited[i], state |-> state,
        previousState |-> previousState]]

\* the events an operation delivers, and what the callbacks invoked with
\* them leave of the subscriber Sets
Delivered(events) ==
  /\ notified' = events
  /\ changeCallbacks' = AfterCallbacks(changeCallbacks, events)
  /\ toggleCallbacks' = AfterCallbacks(toggleCallbacks, events)

\* A faulty Set.add, for comparison: an array push, which keeps duplicates.
SetAdd_Push(set, cb) == Append(set, cb)

\* Set.add
SetAdd(set, cb) ==
  IF \E i \in 1..Len(set) : set[i] = cb THEN set ELSE Append(set, cb)

\* Set.delete
SetDelete(set, cb) == SelectSeq(set, LAMBDA x : x # cb)

\* ---------------------------------------------------------- value updates
\* A faulty Knob.updateValue, for comparison: the angle is taken from the
\* stepped value.
KnobUpdateValue_AngleOfValue(newValue) ==
  /\ rawValue' = KnobClamp(newValue)
  /\ value' = RoundToStep(KnobClamp(newValue), options.step)
  /\ angle' = valueToAngle(options, value')
  /\ visuals' = updateVisuals(handles, angle', value', powered)
  /\ UNCHANGED thumbY

\* Knob.updateValue
KnobUpdateValue(newValue) ==
  /\ rawValue' = KnobClamp(newValue)
  /\ value' = RoundToStep(KnobClamp(newValue), options.step)
  /\ angle' = valueToAngle(options, KnobClamp(newValue))
  /\ visuals' = updateVisuals(handles, angle', value', powered)
  /\ UNCHANGED thumbY

\* Slider.updateValue (with updateVisuals)
SliderUpdateValue(newValue) ==
  /\ rawValue' = SliderClamp(newValue)
  /\ value' = RoundToStep(SliderClamp(newValue), options.step)
  /\ thumbY' = IF "thumb" \in handles
                 THEN thumbPosition(options, trackLength, SliderClamp(newValue))
                 ELSE thumbY
  /\ UNCHANGED <<angle, visuals>>

\* A faulty updateValue, for comparison: the bounds are applied to the
\* stepped value only and the raw value keeps the unclamped sum.
updateValue_RawUnclamped(newValue) ==
  /\ rawValue' = newValue
  /\ value' = RoundToStep(IF kind = "Knob" THEN KnobClamp(newValue)
                          ELSE SliderClamp(newValue), options.step)
  /\ angle' = IF kind = "Knob" THEN valueToAngle(options, newValue) ELSE angle
  /\ visuals' = IF kind = "Knob"
                  THEN updateVisuals(handles, angle', value', powered)
                  ELSE visuals
  /\ thumbY' = IF kind = "Slider" /\ "thumb" \in handles
                 THEN thumbPosition(options, trackLength, newValue)
                 ELSE thumbY

updateValue(newValue) ==
  IF kind = "Knob" THEN KnobUpdateValue(newValue) ELSE SliderUpdateValue(newValue)

\* A faulty update, for comparison: updateVisuals uses the glow element
\* without testing that the Knob holds one, and the exception ends the
\* operation before the change is emitted.
UpdateAndNotify_Unguarded(newValue) ==
  /\ updateValue(newValue)
  /\ Delivered(IF StrictNeq(value', value)
                    /\ (kind = "Knob" => "glow" \in handles)
                 THEN emitChange(value, value', angle', powered)
                 ELSE <<>>)

\* the tail of processDrag and of setValue: update, then emit if the stepped
\* value changed
UpdateAndNotify(newValue) ==
  /\ updateValue(newValue)
  /\ Delivered(IF StrictNeq(value', value)
                 THEN emitChange(value, value', angle', powered)
                 ELSE <<>>)

NoValueChange == UNCHANGED <<value, rawValue, angle, thumbY, visuals>>

\* A faulty processDrag, for comparison: the power gate is left out.
KnobProcessDrag_Ungated(deltaY, shiftKey, ctrlKey) ==
  UpdateAndNotify(Add(rawValue, KnobValueDelta(deltaY, shiftKey, ctrlKey)))

\* A faulty processDrag, for comparison: the gate tests the power state
\* only, whether or not the Knob is toggleable.
KnobProcessDrag_GateOnPower(deltaY, shiftKey, ctrlKey) ==
  IF ~powered
    THEN NoValueChange /\ Delivered(<<>>)
    ELSE UpdateAndNotify(Add(rawValue, KnobValueDelta(deltaY, shiftKey, ctrlKey)))

\* A faulty processDrag, for comparison: the delta is added to the stepped
\* value, so whatever a sample leaves below half a step is lost.
KnobProcessDrag_FromValue(deltaY, shiftKey, ctrlKey) ==
  IF ~powered /\ options.toggleable
    THEN NoValueChange /\ Delivered(<<>>)
    ELSE UpdateAndNotify(Add(value, KnobValueDelta(deltaY, shiftKey, ctrlKey)))

\* Knob.processDrag
KnobProcessDrag(deltaY, shiftKey, ctrlKey) ==
  IF ~powered /\ options.toggleable
    THEN NoValueChange /\ Delivered(<<>>)
    ELSE UpdateAndNotify(Add(rawValue, KnobValueDelta(deltaY, shiftKey, ctrlKey)))

\* Slider.processDrag
SliderProcessDrag(deltaY, shiftKey, ctrlKey) ==
  UpdateAndNotify(Add(rawValue, SliderValueDelta(deltaY, shiftKey, ctrlKey)))

processDrag(deltaY, shiftKey, ctrlKey) ==
  IF kind = "Knob" THEN KnobProcessDrag(deltaY, shiftKey, ctrlKey)
  ELSE SliderProcessDrag(deltaY, shiftKey, ctrlKey)

\* The drags the model follows: the unclamped candidate stays within MaxAbs.
Followed(deltaY, shiftKey, ctrlKey) ==
  LET candidate == Add(rawValue, ValueDelta(deltaY, shiftKey, ctrlKey))
  IN IF kind = "Slider" THEN TRUE
     ELSE IF options.mode = "bounded" \/ ~IsFinite(candidate) THEN TRUE
     ELSE candidate <= N(MaxAbs) /\ candidate >= N(0 - MaxAbs)

\* ------------------------------------------------------------ input events
mouseCapture == {"mousemove", "mouseup"}
touchCapture == {"touchmove", "touchend", "touchcancel"}

\* startDrag
startDrag(y) == isDragging' = TRUE /\ lastY' = y /\ staleDrag' = FALSE

\* A faulty endDrag, for comparison: the drag flag is left as it is.
endDrag_Kept == UNCHANGED isDragging

\* endDrag
endDrag == isDragging' = FALSE

\* The platform dispatches input events one at a time; the click that
\* follows a release is dispatched before anything else happens.
Idle == clickPending = "none"

\* A faulty handleMouseDown, for comparison: the button is not tested.
MouseDown_AnyButton(button, y) ==
  /\ Idle /\ press = "none"
  /\ "mousedown" \in elemListeners
  /\ notified' = <<>>
  /\ startDrag(y)
  /\ docListeners' = docListeners \cup mouseCapture
  /\ press' = IF button = 0 THEN "down" ELSE press
  /\ UNCHANGED <<config, value, rawValue, angle, thumbY, visuals, powered,
                 toggleState, changeCallbacks, toggleCallbacks,
                 elemListeners, destroyed, clickPending>>

\* handleMouseDown: what a mousedown on the container (Knob) or the svg
\* (Slider) does to the control
handleMouseDown(button, y) ==
  /\ Idle /\ press = "none"
  /\ "mousedown" \in elemListeners
  /\ notified' = <<>>
  /\ IF button # 0
       THEN UNCHANGED <<isDragging, lastY, docListeners, press, staleDrag>>
       ELSE /\ startDrag(y)
            /\ docListeners' = docListeners \cup mouseCapture
            /\ press' = "down"
  /\ UNCHANGED <<value, rawValue, angle, thumbY, visuals, powered, toggleState,
                 changeCallbacks, toggleCallbacks, elemListeners, destroyed,
                 clickPending>>

\* a mousedown event
MouseDown(button, y) ==
  /\ handleMouseDown(button, y)
  /\ UNCHANGED config

\* A faulty handleMouseMove, for comparison: a sample that the power gate
\* drops does not become the last position either.
MouseMove_GateKeepsLastY(y, shiftKey, ctrlKey) ==
  /\ Idle
  /\ "mousemove" \in docListeners
  /\ Followed(lastY - y, shiftKey, ctrlKey)
  /\ press' = IF press = "down" THEN "moved" ELSE press
  /\ IF ~isDragging \/ (kind = "Knob" /\ ~powered /\ options.toggleable)
       THEN NoValueChange /\ Delivered(<<>>) /\ UNCHANGED lastY
       ELSE processDrag(lastY - y, shiftKey, ctrlKey) /\ lastY' = y
  /\ UNCHANGED <<config, staleDrag, powered, toggleState, isDragging,
                 docListeners, elemListeners, destroyed, clickPending>>

\* handleMouseMove: a mousemove delivered to the document listener
MouseMove(y, shiftKey, ctrlKey) ==
  /\ Idle
  /\ "mousemove" \in docListeners
  /\ Followed(lastY - y, shiftKey, ctrlKey)
  /\ press' = IF press = "down" THEN "moved" ELSE press
  /\ IF ~isDragging
       THEN NoValueChange /\ Delivered(<<>>) /\ UNCHANGED lastY
       ELSE processDrag(lastY - y, shiftKey, ctrlKey) /\ lastY' = y
  /\ UNCHANGED <<config, staleDrag, powered, toggleState, isDragging, docListeners, elemListeners, destroyed,
                 clickPending>>

\* handleMouseUp: the release of the left button; the platform then
\* dispatches a click to the container when the release is inside it
MouseUp(inside) ==
  /\ Idle /\ press # "none"
  /\ notified' = <<>>
  /\ IF "mouseup" \in docListeners
       THEN endDrag /\ docListeners' = docListeners \ mouseCapture
       ELSE UNCHANGED <<isDragging, docListeners>>
  /\ press' = "none"
  /\ clickPending' = IF inside /\ "click" \in elemListeners
                       THEN (IF press = "moved" THEN "dragged" ELSE "clean")
                       ELSE "none"
  /\ UNCHANGED <<config, staleDrag, value, rawValue, angle, thumbY, visuals, powered, toggleState,
                 lastY, changeCallbacks, toggleCallbacks, elemListeners,
                 destroyed>>

\* handleTouchStart
TouchStart(touches, y) ==
  /\ Idle
  /\ "touchstart" \in elemListeners
  /\ notified' = <<>>
  /\ IF touches # 1
       THEN UNCHANGED <<isDragging, lastY, docListeners, staleDrag>>
       ELSE startDrag(y) /\ docListeners' = docListeners \cup touchCapture
  /\ UNCHANGED <<config, value, rawValue, angle, thumbY, visuals, powered, toggleState,
                 changeCallbacks, toggleCallbacks, elemListeners, destroyed,
                 press, clickPending>>

\* A faulty handleTouchMove, for comparison: the sample is processed as if
\* Shift were held.
TouchMove_Shifted(touches, y) ==
  /\ Idle
  /\ "touchmove" \in docListeners
  /\ Followed(lastY - y, TRUE, FALSE)
  /\ IF ~isDragging \/ touches # 1
       THEN NoValueChange /\ Delivered(<<>>) /\ UNCHANGED lastY
       ELSE processDrag(lastY - y, TRUE, FALSE) /\ lastY' = y
  /\ UNCHANGED <<config, staleDrag, powered, toggleState, isDragging,
                 docListeners, elemListeners, destroyed, press, clickPending>>

\* handleTouchMove
TouchMove(touches, y) ==
  /\ Idle
  /\ "touchmove" \in docListeners
  /\ Followed(lastY - y, FALSE, FALSE)
  /\ IF ~isDragging \/ touches # 1
       THEN NoValueChange /\ Delivered(<<>>) /\ UNCHANGED lastY
       ELSE processDrag(lastY - y, FALSE, FALSE) /\ lastY' = y
  /\ UNCHANGED <<config, staleDrag, powered, toggleState, isDragging, docListeners, elemListeners, destroyed,
                 press, clickPending>>

\* handleTouchEnd: registered for touchend and for touchcancel
TouchEnd(type) ==
  /\ Idle
  /\ type \in docListeners
  /\ notified' = <<>>
  /\ endDrag
  /\ docListeners' = docListeners \ touchCapture
  /\ UNCHANGED <<config, staleDrag, value, rawValue, angle, thumbY, visuals, powered, toggleState,
                 lastY, changeCallbacks, toggleCallbacks, elemListeners,
                 destroyed, press, clickPending>>

\* A faulty setPowered, for comparison: no test of the current state.
setPowered_Unguarded(p) ==
  /\ powered' = p
  /\ visuals' = updateVisuals(handles, angle, value, p)
  /\ Delivered(KnobEmitToggle(p, value))

\* Knob.setPowered, as a step on the power state and the notifications
setPowered(p) ==
  IF powered # p
    THEN /\ powered' = p
         /\ visuals' = updateVisuals(handles, angle, value, p)
         /\ Delivered(KnobEmitToggle(p, value))
    ELSE UNCHANGED <<powered, visuals>> /\ Delivered(<<>>)

\* Knob.toggle
toggle == setPowered(~powered)

\* Knob.handleClick: the click the platform dispatches after a release
Click ==
  /\ clickPending # "none"
  /\ "click" \in elemListeners
  /\ clickPending' = "none"
  /\ IF isDragging
       THEN UNCHANGED <<powered, visuals>> /\ Delivered(<<>>)
       ELSE toggle
  /\ UNCHANGED <<config, staleDrag, value, rawValue, angle, thumbY, toggleState,
                 isDragging, lastY, docListeners, elemListeners, destroyed, press>>

\* Slider.handleToggleClick
ToggleClick ==
  /\ Idle
  /\ "toggleClick" \in elemListeners
  /\ toggleState' = ~toggleState
  /\ Delivered(SliderEmitToggle(toggleState, ~toggleState))
  /\ UNCHANGED <<config, staleDrag, value, rawValue, angle, thumbY, visuals, powered, isDragging,
                 lastY, docListeners,
                 elemListeners, destroyed, press, clickPending>>

\* -------------------------------------------------------------- public API
\* Knob.getValue / Slider.getValue
getValue == value

\* Knob.setValue
KnobSetValue(v) == UpdateAndNotify(v)

\* Slider.setValue
SliderSetValue(v) ==
  IF ~IsFinite(v)
    THEN NoValueChange /\ Delivered(<<>>)
    ELSE UpdateAndNotify(v)

\* A faulty setValue, for comparison: setting a value powers the Knob on.
SetValue_PowersOn(v) ==
  /\ Idle
  /\ IF kind = "Knob" THEN KnobSetValue(v) ELSE SliderSetValue(v)
  /\ powered' = (kind = "Knob" \/ powered)
  /\ UNCHANGED <<config, staleDrag, toggleState, isDragging, lastY,
                 docListeners, elemListeners, destroyed, press, clickPending>>

SetValue(v) ==
  /\ Idle
  /\ IF kind = "Knob" THEN KnobSetValue(v) ELSE SliderSetValue(v)
  /\ UNCHANGED <<config, staleDrag, powered, toggleState, isDragging, lastY,
                 docListeners, elemListeners,
                 destroyed, press, clickPending>>

\* Knob.setPowered
SetPowered(p) ==
  /\ Idle
  /\ kind = "Knob"
  /\ setPowered(p)
  /\ UNCHANGED <<config, staleDrag, value, rawValue, angle, thumbY, toggleState,
                 isDragging, lastY, docListeners, elemListeners, destroyed, press, clickPending>>

\* Knob.toggle
Toggle ==
  /\ Idle
  /\ kind = "Knob"
  /\ toggle
  /\ UNCHANGED <<config, staleDrag, value, rawValue, angle, thumbY, toggleState,
                 isDragging, lastY, docListeners, elemListeners, destroyed, press, clickPending>>

\* A faulty setToggle, for comparison: no test of the current state.
SetToggle_Unguarded(state) ==
  /\ Idle
  /\ kind = "Slider"
  /\ toggleState' = state
  /\ Delivered(SliderEmitToggle(toggleState, state))
  /\ UNCHANGED <<config, staleDrag, value, rawValue, angle, thumbY, visuals, powered,
                 isDragging, lastY, docListeners, elemListeners, destroyed,
                 press, clickPending>>

\* Slider.setToggle
SetToggle(state) ==
  /\ Idle
  /\ kind = "Slider"
  /\ IF toggleState = state
       THEN UNCHANGED toggleState /\ Delivered(<<>>)
       ELSE /\ toggleState' = state
            /\ Delivered(SliderEmitToggle(toggleState, state))
  /\ UNCHANGED <<config, staleDrag, value, rawValue, angle, thumbY, visuals, powered, isDragging,
                 lastY, docListeners,
                 elemListeners, destroyed, press, clickPending>>

\* onChange
OnChange(cb) ==
  /\ Idle
  /\ changeCallbacks' = SetAdd(changeCallbacks, cb)
  /\ notified' = <<>>
  /\ UNCHANGED <<config, staleDrag, value, rawValue, angle, thumbY, visuals, powered, toggleState,
                 isDragging, lastY, toggleCallbacks, docListeners,
                 elemListeners, destroyed, press, clickPending>>

\* onToggle
OnToggle(cb) ==
  /\ Idle
  /\ toggleCallbacks' = SetAdd(toggleCallbacks, cb)
  /\ notified' = <<>>
  /\ UNCHANGED <<config, staleDrag, value, rawValue, angle, thumbY, visuals, powered, toggleState,
                 isDragging, lastY, changeCallbacks, docListeners,
                 elemListeners, destroyed, press, clickPending>>

\* off
Off(event, cb) ==
  /\ Idle
  /\ IF event = "change"
       THEN /\ changeCallbacks' = SetDelete(changeCallbacks, cb)
            /\ UNCHANGED toggleCallbacks
       ELSE /\ toggleCallbacks' = SetDelete(toggleCallbacks, cb)
            /\ UNCHANGED changeCallbacks
  /\ notified' = <<>>
  /\ UNCHANGED <<config, staleDrag, value, rawValue, angle, thumbY, visuals, powered, toggleState,
                 isDragging, lastY, docListeners, elemListeners, destroyed,
                 press, clickPending>>

\* Knob.destroy: the listeners it removes from the container
KnobDestroyElemListeners == elemListeners

\* Slider.destroy: the svg's listeners and the toggle button's are removed
SliderDestroyElemListeners == {}

\* A faulty destroy, for comparison: the touch listeners are left on the
\* document.
DestroyDocListeners_MouseOnly == docListeners \ mouseCapture

\* destroy: the document listeners left registered
DestroyDocListeners == docListeners \ (mouseCapture \cup touchCapture)

\* destroy: the subscriber Sets after clear()
DestroyCallbacks == <<>>

\* Knob.destroy / Slider.destroy
Destroy ==
  /\ Idle
  /\ ~destroyed
  /\ destroyed' = TRUE
  /\ staleDrag' = isDragging
  /\ docListeners' = DestroyDocListeners
  /\ elemListeners' = IF kind = "Knob" THEN KnobDestroyElemListeners
                      ELSE SliderDestroyElemListeners
  /\ changeCallbacks' = DestroyCallbacks
  /\ toggleCallbacks' = DestroyCallbacks
  /\ notified' = <<>>
  /\ UNCHANGED <<config, value, rawValue, angle, thumbY, visuals, powered, toggleState,
                 isDragging, lastY, press, clickPending>>

\* ----------------------------------------------------------- specification
Next ==
  \/ \E button \in {0, 2}, y \in Ys : MouseDown(button, y)
  \/ \E y \in Ys, shiftKey \in BOOLEAN, ctrlKey \in BOOLEAN :
       MouseMove(y, shiftKey, ctrlKey)
  \/ \E inside \in BOOLEAN : MouseUp(inside)
  \/ \E touches \in {1, 2}, y \in Ys : TouchStart(touches, y)
  \/ \E touches \in {1, 2}, y \in Ys : TouchMove(touches, y)
  \/ \E type \in {"touchend", "touchcancel"} : TouchEnd(type)
  \/ Click
  \/ ToggleClick
  \/ \E v \in SetArgs \cup {getValue} : SetValue(v)
  \/ \E p \in BOOLEAN : SetPowered(p)
  \/ Toggle
  \/ \E state \in BOOLEAN : SetToggle(state)
  \/ \E cb \in Callbacks : OnChange(cb)
  \/ \E cb \in Callbacks : OnToggle(cb)
  \/ \E event \in {"change", "toggle"}, cb \in Callbacks : Off(event, cb)
  \/ Destroy

Spec == Init /\ [][Next]_vars

\* ------------------------------------------- the notifier seen on its own
\* Subscribers that only record events ("f", "g") and one that unsubscribes
\* "f" when it is invoked ("u"), on a toggleable Knob and on a Slider with a
\* toggle, driven through the public methods.
NotifierCallbacks == {"f", "g", "u"}

NotifierKnobOptions ==
  [mode |-> "bounded", min |-> 0, max |-> N(8), step |-> N(2),
   value |-> N(4), toggleable |-> TRUE]

NotifierSliderOptions ==
  [max |-> N(8), length |-> 200, step |-> N(2), showToggle |-> TRUE]

NotifierSetArgs == {N(0), N(5)}

NotifierInit ==
  /\ KnobInit(NotifierKnobOptions) \/ SliderInit(NotifierSliderOptions)
  /\ Untouched

NotifierNext ==
  \/ \E cb \in NotifierCallbacks : OnChange(cb)
  \/ \E cb \in NotifierCallbacks : OnToggle(cb)
  \/ \E event \in {"change", "toggle"}, cb \in NotifierCallbacks : Off(event, cb)
  \/ \E v \in NotifierSetArgs : SetValue(v)
  \/ \E p \in BOOLEAN : SetPowered(p)
  \/ Toggle
  \/ \E state \in BOOLEAN : SetToggle(state)
  \/ ToggleClick

NotifierSpec == NotifierInit /\ [][NotifierNext]_vars

\* ----------------------------------- configuration, construction and drags
\* The module is loaded, configureKnobs is called any number of times before
\* and after one control is constructed, and the control is dragged with the
\* mouse.
\* configureKnobs: Object.assign(globalConfig, cfg)
ObjectAssign(target, cfg) ==
  [f \in DOMAIN target |-> IF f \in DOMAIN cfg THEN cfg[f] ELSE target[f]]

ConfigureKnobs(cfg) ==
  /\ Idle
  /\ globalConfig' = ObjectAssign(globalConfig, cfg)
  /\ notified' = <<>>
  /\ UNCHANGED <<kind, options, pixelsPerFullRotation, shiftMultiplier,
                 ctrlMultiplier, trackLength, handles, value, rawValue, angle,
                 thumbY, visuals,
                 powered, toggleState, isDragging, lastY, changeCallbacks,
                 toggleCallbacks, docListeners, elemListeners, destroyed,
                 staleDrag, press, clickPending, thrown, stroke>>

\* no control has been constructed yet
NoControl ==
  [kind |-> "none", options |-> DEFAULT_OPTIONS, pixelsPerFullRotation |-> 0,
   shiftMultiplier |-> 0, ctrlMultiplier |-> 0, trackLength |-> 0,
   value |-> 0, rawValue |-> 0, powered |-> FALSE, toggleState |-> FALSE,
   angle |-> 0, thumbY |-> 0, handles |-> {}, visuals |-> <<>>,
   elemListeners |-> {}]

\* new Knob(...) / new Slider(...), run while globalConfig is as it is now
Construct(c) ==
  /\ kind = "none"
  /\ kind' = c.kind
  /\ options' = c.options
  /\ pixelsPerFullRotation' = c.pixelsPerFullRotation
  /\ shiftMultiplier' = c.shiftMultiplier
  /\ ctrlMultiplier' = c.ctrlMultiplier
  /\ trackLength' = c.trackLength
  /\ value' = c.value
  /\ rawValue' = c.rawValue
  /\ powered' = c.powered
  /\ toggleState' = c.toggleState
  /\ angle' = c.angle
  /\ thumbY' = c.thumbY
  /\ handles' = c.handles
  /\ visuals' = c.visuals
  /\ elemListeners' = c.elemListeners
  /\ notified' = <<>>
  /\ UNCHANGED <<globalConfig, isDragging, lastY, changeCallbacks,
                 toggleCallbacks, docListeners, destroyed, staleDrag, press,
                 clickPending, thrown, stroke>>

ConstructKnob(given) == Construct(NewKnob(given, globalConfig))

ConstructSlider(given) == Construct(NewSlider(given, globalConfig))

\* The document has one element that the selectors of the model match.
Document == {"#control"}

Selectors == {"#control", "#missing"}

\* what document.querySelector gives for a selector that matches nothing
Null == "null"

\* document.querySelector
querySelector(selector) ==
  IF selector \in Document THEN selector ELSE Null

\* A faulty constructor, for comparison: the container is looked up only
\* after the fields are set, so a control is left behind when it throws.
ContainerNotFound_Late(c) ==
  /\ kind = "none"
  /\ thrown' = TRUE
  /\ kind' = c.kind
  /\ options' = c.options
  /\ pixelsPerFullRotation' = c.pixelsPerFullRotation
  /\ shiftMultiplier' = c.shiftMultiplier
  /\ ctrlMultiplier' = c.ctrlMultiplier
  /\ trackLength' = c.trackLength
  /\ value' = c.value
  /\ rawValue' = c.rawValue
  /\ powered' = c.powered
  /\ toggleState' = c.toggleState
  /\ angle' = c.angle
  /\ thumbY' = c.thumbY
  /\ handles' = c.handles
  /\ visuals' = c.visuals
  /\ elemListeners' = c.elemListeners
  /\ notified' = <<>>
  /\ UNCHANGED <<globalConfig, isDragging, lastY, changeCallbacks,
                 toggleCallbacks, docListeners, destroyed, staleDrag, press,
                 clickPending, stroke>>

\* throw new Error(`Container not found: ...`), the first statement of
\* both constructors to have an effect
ContainerNotFound(c) ==
  /\ kind = "none"
  /\ thrown' = TRUE
  /\ UNCHANGED <<globalConfig, kind, options, pixelsPerFullRotation,
                 shiftMultiplier, ctrlMultiplier, trackLength, handles,
                 value, rawValue, angle, thumbY, visuals, powered,
                 toggleState, isDragging, lastY, changeCallbacks,
                 toggleCallbacks, docListeners, elemListeners, destroyed,
                 staleDrag, press, clickPending, notified, stroke>>

\* new Knob(selector, given)
ConstructKnobBySelector(selector, given) ==
  IF querySelector(selector) = Null
    THEN ContainerNotFound(NewKnob(given, globalConfig))
    ELSE ConstructKnob(given)

\* new Slider(selector, given)
ConstructSliderBySelector(selector, given) ==
  IF querySelector(selector) = Null
    THEN ContainerNotFound(NewSlider(given, globalConfig))
    ELSE ConstructSlider(given)

\* the arguments of configureKnobs
ConfigArgs ==
  { [pixelsPerFullRotation |-> 200],
    [shiftMultiplier |-> N(2), ctrlMultiplier |-> Q(1, 2)] }

ConfigKnobOptionSets ==
  { [mode |-> "bounded", min |-> 0, max |-> N(10), step |-> Q(1, 10),
     value |-> 0, pixelsPerFullRotation |-> 400],
    [mode |-> "bounded", min |-> 0, max |-> N(8), step |-> N(2), value |-> N(4)],
    [mode |-> "infinite", step |-> Q(5, 2), shiftMultiplier |-> N(2)],
    [mode |-> "min-only", step |-> 0],
    [step |-> N(2)],
    [mode |-> "bounded", min |-> N(4), step |-> N(2)],
    [mode |-> "bounded", max |-> N(8), step |-> N(2)] }

ConfigSliderOptionSets ==
  { [max |-> N(8), length |-> 200, step |-> N(2)],
    [max |-> N(8), length |-> 200, step |-> N(2),
     pixelsPerFullTravel |-> 400, ctrlMultiplier |-> Q(1, 2)] }

\* onChange is a method: it is called on a control that was constructed
OnChangeOfControl(cb) ==
  /\ kind # "none"
  /\ OnChange(cb)

ConfigInit ==
  /\ globalConfig = InitialGlobalConfig
  /\ IsNew(NoControl)
  /\ Untouched

ConfigNext ==
  \/ \E cfg \in ConfigArgs : ConfigureKnobs(cfg)
  \/ \E selector \in Selectors, given \in ConfigKnobOptionSets :
       ConstructKnobBySelector(selector, given)
  \/ \E selector \in Selectors, given \in ConfigSliderOptionSets :
       ConstructSliderBySelector(selector, given)
  \/ \E button \in {0, 2}, y \in Ys : MouseDown(button, y)
  \/ \E y \in Ys, shiftKey \in BOOLEAN, ctrlKey \in BOOLEAN :
       MouseMove(y, shiftKey, ctrlKey)
  \/ \E inside \in BOOLEAN : MouseUp(inside)
  \/ \E cb \in Callbacks : OnChangeOfControl(cb)

ConfigSpec == ConfigInit /\ [][ConfigNext]_vars

\* ------------------------------------- a gesture on a Knob that is off
\* A toggleable Knob constructed powered off. Gestures start while it is
\* off, and setPowered(true) is called while a gesture is in progress.
GestureKnobOptions ==
  [mode |-> "bounded", min |-> 0, max |-> N(8), step |-> N(2),
   value |-> N(4), toggleable |-> TRUE, powered |-> FALSE]

GestureInit == KnobInit(GestureKnobOptions) /\ Untouched

GestureNext ==
  \/ \E y \in Ys : ~powered /\ MouseDown(0, y)
  \/ \E y \in Ys : ~powered /\ TouchStart(1, y)
  \/ \E y \in Ys, shiftKey \in BOOLEAN, ctrlKey \in BOOLEAN :
       MouseMove(y, shiftKey, ctrlKey)
  \/ \E y \in Ys : TouchMove(1, y)
  \/ isDragging /\ SetPowered(TRUE)
  \/ MouseUp(FALSE)
  \/ \E type \in {"touchend", "touchcancel"} : TouchEnd(type)
  \/ \E cb \in Callbacks : OnChange(cb)

GestureSpec == GestureInit /\ [][GestureNext]_vars

\* ------------------------------------------ setValue seen on its own
\* Controls of every mode, with steps that divide the bounds and one that
\* does not, driven through setValue with finite arguments below, inside
\* and above the bounds, between multiples of the step and on exact halves.
ValueKnobOptionSets ==
  { [mode |-> "bounded", min |-> 0, max |-> N(10), step |-> N(1)],
    [mode |-> "bounded", min |-> 0, max |-> N(6), step |-> Q(1, 2)],
    [mode |-> "bounded", min |-> 0, max |-> N(10), step |-> N(4),
     startAngle |-> N(0 - 90), endAngle |-> N(90)],
    [mode |-> "min-only", min |-> N(1), step |-> Q(1, 2)],
    [mode |-> "infinite", step |-> Q(1, 2)] }

ValueSliderOptionSets ==
  { [min |-> 0, max |-> N(10), step |-> N(1), length |-> 200],
    [min |-> 0, max |-> N(6), step |-> Q(1, 2), length |-> 200] }

ValueArgs ==
  {N(0 - 5), Q(0 - 5, 4), Q(131, 25), Q(21, 4), Q(263, 50), N(15)}

\* The position of v in the bounds is a number of the model: the angle and
\* the thumb position computed from it are exact.
Representable(v) ==
  IF kind = "Knob"
    THEN IF options.mode = "bounded"
           THEN (Sub(KnobClamp(v), options.min) * Scale)
                  % Sub(options.max, options.min) = 0
           ELSE TRUE
    ELSE (Sub(SliderClamp(v), options.min) * Scale)
           % Sub(options.max, options.min) = 0

ValueInit ==
  /\ \/ \E given \in ValueKnobOptionSets : KnobInit(given)
     \/ \E given \in ValueSliderOptionSets : SliderInit(given)
  /\ Untouched

ValueNext ==
  \/ \E v \in ValueArgs : Representable(v) /\ SetValue(v)
  \/ \E cb \in Callbacks : OnChange(cb)
  \/ \E cb \in Callbacks : Off("change", cb)

ValueSpec == ValueInit /\ [][ValueNext]_vars

\* ------------------------------------ controls that hold fewer elements
\* Knobs that are alike but for the elements their svg has (a glow element
\* if options.glow, a power indicator if options.toggleable), a Knob with a
\* dial only, and a Slider, dragged and set.
VisualKnobOptionSets ==
  { [mode |-> "bounded", min |-> 0, max |-> N(8), step |-> N(2),
     value |-> N(4), toggleable |-> TRUE, glow |-> TRUE],
    [mode |-> "bounded", min |-> 0, max |-> N(8), step |-> N(2),
     value |-> N(4), toggleable |-> TRUE],
    [mode |-> "bounded", min |-> 0, max |-> N(8), step |-> N(2),
     value |-> N(4), glow |-> TRUE],
    [mode |-> "infinite", step |-> Q(5, 2)] }

VisualSliderOptions ==
  [max |-> N(8), length |-> 200, step |-> N(2)]

VisualSetArgs == {N(0 - 5), N(5), N(15)}

VisualInit ==
  /\ \/ \E given \in VisualKnobOptionSets : KnobInit(given)
     \/ SliderInit(VisualSliderOptions)
  /\ Untouched

VisualNext ==
  \/ \E y \in Ys : MouseDown(0, y)
  \/ \E y \in Ys, shiftKey \in BOOLEAN, ctrlKey \in BOOLEAN :
       MouseMove(y, shiftKey, ctrlKey)
  \/ \E inside \in BOOLEAN : MouseUp(inside)
  \/ Click
  \/ \E y \in Ys : TouchStart(1, y)
  \/ \E y \in Ys : TouchMove(1, y)
  \/ TouchEnd("touchend")
  \/ \E v \in VisualSetArgs : SetValue(v)
  \/ \E p \in BOOLEAN : SetPowered(p)
  \/ \E cb \in Callbacks : OnChange(cb)

VisualSpec == VisualInit /\ [][VisualNext]_vars

\* ------------------------------------------- gestures followed end to end
\* Knobs in infinite mode that are never powered off.  Each left-button
\* press is recorded with the raw value it found and the modifier keys that
\* are held throughout the gesture; the button is released outside the
\* control, so that no click follows.
StrokeKnobOptionSets ==
  { [mode |-> "infinite", step |-> Q(5, 2), shiftMultiplier |-> N(2)],
    [mode |-> "infinite", step |-> Q(5, 2), shiftMultiplier |-> N(2),
     value |-> Q(5, 4)] }

StrokeInit ==
  /\ \E given \in StrokeKnobOptionSets : KnobInit(given)
  /\ Untouched

\* a left-button press, with the modifier keys held from here on
StrokePress(y, shiftKey, ctrlKey) ==
  /\ handleMouseDown(0, y)
  /\ stroke' = [pressed |-> TRUE, y |-> y, raw |-> rawValue,
                shiftKey |-> shiftKey, ctrlKey |-> ctrlKey]
  /\ UNCHANGED <<globalConfig, kind, options, pixelsPerFullRotation,
                 shiftMultiplier, ctrlMultiplier, trackLength, handles,
                 thrown>>

\* a move sample of the gesture
StrokeMove(y) ==
  /\ press # "none"
  /\ MouseMove(y, stroke.shiftKey, stroke.ctrlKey)

\* the release, outside the control
StrokeRelease == MouseUp(FALSE)

StrokeNext ==
  \/ \E y \in Ys, shiftKey \in BOOLEAN, ctrlKey \in BOOLEAN :
       StrokePress(y, shiftKey, ctrlKey)
  \/ \E y \in Ys : StrokeMove(y)
  \/ StrokeRelease

StrokeSpec == StrokeInit /\ [][StrokeNext]_vars

\* ------------------------------------------------------------------ claims
\* The kinds of step the claims speak of.
MoveStep ==
  \/ \E y \in Ys, shiftKey \in BOOLEAN, ctrlKey \in BOOLEAN :
       MouseMove(y, shiftKey, ctrlKey)
  \/ \E touches \in {1, 2}, y \in Ys : TouchMove(touches, y)

SetValueStep == \E v \in SetArgs \cup {getValue} : SetValue(v)

FiniteSetValueStep ==
  \E v \in SetArgs \cup {getValue} : IsFinite(v) /\ SetValue(v)

NonFiniteSetValueStep ==
  \E v \in SetArgs \cup {getValue} : ~IsFinite(v) /\ SetValue(v)

PressOrReleaseStep ==
  \/ \E button \in {0, 2}, y \in Ys : MouseDown(button, y)
  \/ \E inside \in BOOLEAN : MouseUp(inside)
  \/ \E touches \in {1, 2}, y \in Ys : TouchStart(touches, y)
  \/ \E type \in {"touchend", "touchcancel"} : TouchEnd(type)

\* a toggleable Knob that is powered off
Gated == kind = "Knob" /\ options.toggleable /\ ~powered

\* x is within the bounds of the mode
InBounds(x) ==
  IF kind = "Slider" THEN x >= options.min /\ x <= options.max
  ELSE CASE options.mode = "bounded" -> x >= options.min /\ x <= options.max
         [] options.mode = "min-only" -> x >= options.min
         [] options.mode = "infinite" -> TRUE

\* C1: after a processed drag move sample or a setValue call with a finite
\* argument, getValue() is within the bounds of the mode (no non-finite
\* argument having been given before).
C1_ValueInBoundsAfterUpdate ==
  [][(\/ FiniteSetValueStep
      \/ (MoveStep /\ isDragging /\ ~Gated /\ rawValue # NaN))
     => InBounds(getValue')]_vars

\* C2: in every reachable state, the state after construction included, the
\* external value is round(raw / step) * step.
C2_ValueIsRoundedRaw == value = RoundToStep(rawValue, options.step)

\* C3: in every reachable state, the state after construction included, the
\* raw value is within the bounds of the mode.
C3_RawInBounds == InBounds(rawValue)

\* the change events of notified' are one per subscriber, in the order of
\* the Set, each with the given previous and new value
DeliveredOnce(previous, new) ==
  /\ Len(notified') = Len(changeCallbacks)
  /\ \A i \in 1..Len(notified') :
       /\ notified'[i].type = "change"
       /\ notified'[i].cb = changeCallbacks[i]
       /\ notified'[i].previousValue = previous
       /\ notified'[i].value = new
  /\ \A i, j \in 1..Len(notified') :
       notified'[i].cb = notified'[j].cb => i = j

\* C4: a drag move sample or a setValue call delivers one change event to
\* each subscriber when the external value after it differs from the one
\* before, carrying the value before and the value after, and delivers
\* nothing when the external value is the same.
C4_NotifiedIffValueChanged ==
  [][(MoveStep \/ SetValueStep)
     => IF getValue' # getValue
          THEN DeliveredOnce(getValue, getValue')
          ELSE notified' = <<>>]_vars

\* C5: setValue(getValue()) delivers no change event, in every reachable
\* state.
C5_SetCurrentValueIsSilent ==
  [][SetValue(getValue) => notified' = <<>>]_vars

\* C6: setValue with a non-finite argument changes neither the raw value,
\* the external value, the angle or the thumb position, and delivers no
\* event.
C6_NonFiniteRejected ==
  [][NonFiniteSetValueStep
     => UNCHANGED <<rawValue, value, angle, thumbY>> /\ notified' = <<>>]_vars

\* C7: on a toggleable Knob, the click that follows a press, one or more
\* move samples and a release changes no power state and delivers no toggle
\* event.
C7_NoToggleAfterDrag ==
  [][(Click /\ clickPending = "dragged")
     => powered' = powered /\ notified' = <<>>]_vars

\* a move sample that reaches processDrag
MouseSample(y, shiftKey, ctrlKey) ==
  MouseMove(y, shiftKey, ctrlKey) /\ isDragging

TouchSample(y) == TouchMove(1, y) /\ isDragging

\* C8: while a toggleable Knob is powered off, press, move and release
\* events (mouse or touch, any modifiers) leave the external value, the raw
\* value and the angle unchanged and deliver no event; while it is powered
\* on, a move sample (whose position becomes the last position) sets the
\* raw value to the clamped sum of the raw value
\* and the delta of the sample, which differs from the raw value when the
\* delta is not zero and the sum is within the bounds.
C8_PoweredOffIgnoresDrag ==
  [][/\ (Gated /\ (PressOrReleaseStep \/ MoveStep))
          => UNCHANGED <<value, rawValue, angle>> /\ notified' = <<>>
     /\ \A y \in Ys, shiftKey \in BOOLEAN, ctrlKey \in BOOLEAN :
          LET delta == KnobValueDelta(lastY - y, shiftKey, ctrlKey)
              sum == Add(rawValue, delta)
          IN (/\ kind = "Knob" /\ options.toggleable /\ powered
              /\ IsFinite(rawValue)
              /\ isDragging /\ lastY' = y
              /\ \/ MouseSample(y, shiftKey, ctrlKey)
                 \/ (TouchSample(y) /\ ~shiftKey /\ ~ctrlKey))
             => /\ rawValue' = KnobClamp(sum)
                /\ (lastY # y /\ InBounds(sum)) => (rawValue' = sum /\ rawValue' # rawValue)
    ]_vars

\* C8 witness: a Knob constructed powered off has been powered on and a drag
\* has taken its raw value to one that setValue cannot produce.
C8_Witness ==
  /\ kind = "Knob" /\ options.toggleable /\ ~options.powered
  /\ powered /\ isDragging
  /\ rawValue = N(7)

\* an input event on the container, the svg, the toggle button or the
\* document
InputEventStep == PressOrReleaseStep \/ MoveStep \/ Click \/ ToggleClick

\* C9: after destroy(), no input event changes the raw value, the external
\* value, the power state, the toggle state or the drag state.
C9_NoMutationAfterDestroy ==
  [][(destroyed /\ InputEventStep)
     => UNCHANGED <<rawValue, value, powered, toggleState, isDragging>>]_vars

\* C10: destroy() leaves no document listener registered and both
\* subscriber Sets empty; from a destroy() during a drag until the next
\* press no document listener is registered, so that no move sample of that
\* drag is delivered; and an event is only ever delivered to a callback that
\* is in the subscriber Set when the event is emitted, hence to none that
\* was registered before destroy() and not again after it.
C10_DestroyReleasesCapture ==
  /\ [](staleDrag => docListeners = {})
  /\ [][/\ Destroy => /\ docListeners' = {}
                      /\ changeCallbacks' = <<>>
                      /\ toggleCallbacks' = <<>>
        /\ \A i \in 1..Len(notified') :
             \/ /\ notified'[i].type = "change"
                /\ \E j \in 1..Len(changeCallbacks) :
                     changeCallbacks[j] = notified'[i].cb
             \/ /\ notified'[i].type = "toggle"
                /\ \E j \in 1..Len(toggleCallbacks) :
                     toggleCallbacks[j] = notified'[i].cb
       ]_vars

\* C10 witness: destroy() has run during a mouse drag that had moved, and
\* the drag flag is still set.
C10_Witness ==
  /\ destroyed /\ staleDrag /\ isDragging
  /\ press = "moved"
  /\ docListeners = {}

\* the subscriber Set of an event type
Subscribers(type) == IF type = "change" THEN changeCallbacks ELSE toggleCallbacks

\* the callbacks the events were delivered to, in order
InvokedBy(events) == [i \in 1..Len(events) |-> events[i].cb]

Has(set, cb) == \E i \in 1..Len(set) : set[i] = cb

\* C11: in a notification pass, every subscriber that was registered when
\* the pass began is invoked, also one that a subscriber invoked earlier in
\* the pass has unsubscribed.
C11_UnsubscribedStillInvoked ==
  [][\A type \in {"change", "toggle"} :
       (notified' # <<>> /\ notified'[1].type = type)
         => \A j \in 1..Len(Subscribers(type)) :
              Has(InvokedBy(notified'), Subscribers(type)[j])]_vars

\* no subscriber of the Set unsubscribes another when invoked
Passive(set) == \A i \in 1..Len(set) : Unsubscribes(set[i]) = {}

\* C12: onChange and onToggle with a callback already registered leave the
\* Set as it is, and with a new callback put it after the ones registered
\* before; one off call leaves the callback out of the Set; a notification
\* invokes no callback twice, and when no subscriber unsubscribes another
\* it invokes every subscriber once, in the order of registration.
C12_RegistrationByIdentity ==
  [][/\ \A cb \in NotifierCallbacks :
          /\ OnChange(cb) =>
               changeCallbacks' = IF Has(changeCallbacks, cb) THEN changeCallbacks
                                  ELSE Append(changeCallbacks, cb)
          /\ OnToggle(cb) =>
               toggleCallbacks' = IF Has(toggleCallbacks, cb) THEN toggleCallbacks
                                  ELSE Append(toggleCallbacks, cb)
          /\ Off("change", cb) => ~Has(changeCallbacks', cb)
          /\ Off("toggle", cb) => ~Has(toggleCallbacks', cb)
     /\ \A i, j \in 1..Len(notified') :
          notified'[i].cb = notified'[j].cb => i = j
     /\ \A type \in {"change", "toggle"} :
          (/\ notified' # <<>> /\ notified'[1].type = type
           /\ Passive(Subscribers(type)))
            => InvokedBy(notified') = Subscribers(type)
    ]_vars

\* C12 witness: two subscribers, the later registered after the earlier, have
\* just been given the same change event, each once, in that order.
C12_Witness ==
  /\ changeCallbacks = <<"g", "f">>
  /\ InvokedBy(notified) = <<"g", "f">>
  /\ notified[1].type = "change"
  /\ notified[1] = [notified[2] EXCEPT !.cb = "g"]

\* the pixels of pointer travel that a drag of the control takes for its
\* whole range
PixelsPerRange == IF kind = "Slider" THEN trackLength ELSE pixelsPerFullRotation

\* the per-instance override of the pixels per range
PixelsOverride(given) ==
  Coalesce(Given(given, "pixelsPerFullRotation"), Given(given, "pixelsPerFullTravel"))

\* C13: a control is constructed with, field by field, its own override or
\* else the process-wide default as it is at construction, for the pixels
\* per range and both multipliers; configureKnobs changes the fields it names
\* and no other, and nothing of a control that exists.
C13_DefaultsSnapshotAtConstruction ==
  [][/\ \A given \in ConfigKnobOptionSets \cup ConfigSliderOptionSets :
          (ConstructKnob(given) \/ ConstructSlider(given))
            => /\ PixelsPerRange' = Coalesce(PixelsOverride(given),
                                             globalConfig.pixelsPerFullRotation)
               /\ shiftMultiplier' = Coalesce(Given(given, "shiftMultiplier"),
                                              globalConfig.shiftMultiplier)
               /\ ctrlMultiplier' = Coalesce(Given(given, "ctrlMultiplier"),
                                             globalConfig.ctrlMultiplier)
     /\ \A cfg \in ConfigArgs :
          ConfigureKnobs(cfg)
            => /\ UNCHANGED <<pixelsPerFullRotation, trackLength,
                              shiftMultiplier, ctrlMultiplier>>
               /\ \A f \in DOMAIN globalConfig :
                    globalConfig'[f] = IF f \in DOMAIN cfg THEN cfg[f]
                                       ELSE globalConfig[f]
    ]_vars

\* the factor the claim gives to the modifiers held
ModifierFactor(shiftKey, ctrlKey) ==
  IF shiftKey /\ ctrlKey THEN Mul(shiftMultiplier, ctrlMultiplier)
  ELSE IF shiftKey THEN shiftMultiplier
  ELSE IF ctrlKey THEN ctrlMultiplier
  ELSE N(1)

\* C14: a mouse move sample of a Knob drag adds to the raw value the delta
\* that the same pixels add with no modifier, times shiftMultiplier with
\* Shift held, times ctrlMultiplier with Ctrl held, times their product with
\* both held, whenever that sum is within the bounds.
C14_ModifierScaling ==
  [][\A shiftKey \in BOOLEAN, ctrlKey \in BOOLEAN :
       LET y == lastY'
           plain == KnobValueDelta(lastY - y, FALSE, FALSE)
           sum == Add(rawValue, Mul(ModifierFactor(shiftKey, ctrlKey), plain))
       IN (/\ kind = "Knob" /\ isDragging /\ ~Gated /\ IsFinite(rawValue)
           /\ MouseMove(y, shiftKey, ctrlKey)
           /\ InBounds(sum))
          => rawValue' = sum
    ]_vars

\* C14 witness: the drag of a Knob with range 8, 400 pixels per range and
\* ctrlMultiplier 1/4 has reached a raw value that only a sample with Ctrl
\* held produces from the initial 4.
C14_Witness ==
  /\ kind = "Knob" /\ isDragging
  /\ options.mode = "bounded" /\ options.max = N(8)
  /\ pixelsPerFullRotation = 400 /\ ctrlMultiplier = Q(1, 4)
  /\ rawValue = N(5)

\* the factor of the claim: max - min for a bounded Knob, else 10
RangeFactor ==
  IF options.mode = "bounded" THEN options.max - options.min ELSE N(10)

\* the scenario of the claim: min 0, max 10, step 0.1, 400 pixels, value 0
Scenario ==
  /\ kind = "Knob" /\ options.mode = "bounded"
  /\ options.min = 0 /\ options.max = N(10) /\ options.step = Q(1, 10)
  /\ pixelsPerFullRotation = 400

\* C15: an unmodified mouse move sample of p pixels upward on a Knob adds
\* (p / pixelsPerFullRotation) * (max - min), or * 10 for min-only and
\* infinite Knobs, to the raw value, which is then clamped; from min, a
\* sample of pixelsPerFullRotation pixels reaches max; and with min 0, max
\* 10, step 0.1, 400 pixels per range and value 0, a sample of 200 pixels
\* gives getValue() = 5 and one change event per subscriber, with
\* previousValue 0 and value 5.
C15_PixelsToValue ==
  [][LET y == lastY'
         p == lastY - y
         sum == Add(rawValue, Mul((p * Scale) \div pixelsPerFullRotation, RangeFactor))
     IN (/\ kind = "Knob" /\ isDragging /\ ~Gated /\ IsFinite(rawValue)
         /\ MouseMove(y, FALSE, FALSE))
        => /\ rawValue' = KnobClamp(sum)
           /\ (/\ options.mode = "bounded" /\ rawValue = options.min
               /\ p = pixelsPerFullRotation) => rawValue' = options.max
           /\ (Scenario /\ rawValue = 0 /\ value = 0 /\ p = 200)
                => /\ getValue' = N(5)
                   /\ Len(notified') = Len(changeCallbacks)
                   /\ \A i \in 1..Len(notified') :
                        /\ notified'[i].type = "change"
                        /\ notified'[i].previousValue = 0
                        /\ notified'[i].value = N(5)
    ]_vars

\* C15 witness: in the scenario, the subscriber has just been given the one
\* change event from 0 to 5 during the drag.
C15_Witness ==
  /\ Scenario /\ isDragging
  /\ value = N(5) /\ rawValue = N(5)
  /\ Len(notified) = 1
  /\ notified[1].previousValue = 0 /\ notified[1].value = N(5)

\* the release of a mouse drag of the control
MouseRelease == "mouseup" \in docListeners /\ \E inside \in BOOLEAN : MouseUp(inside)

\* C16: a mouse release, a touchend and a touchcancel end the drag: the drag
\* flag is cleared, the capture of that pointer is released, the raw value,
\* the external value and the angle or thumb position stay as they are and no
\* event is delivered; a touchcancel step is a touchend step and conversely;
\* and a move event that arrives while no drag is in progress changes none
\* of them and delivers no event.
C16_ReleaseAndCancelEndDrag ==
  [][/\ (MouseRelease \/ TouchEnd("touchend") \/ TouchEnd("touchcancel"))
          => /\ ~isDragging'
             /\ UNCHANGED <<value, rawValue, angle, thumbY>>
             /\ notified' = <<>>
     /\ MouseRelease => docListeners' \cap mouseCapture = {}
     /\ TouchEnd("touchcancel") => docListeners' \cap touchCapture = {}
     /\ TouchEnd("touchcancel") <=> TouchEnd("touchend")
     /\ (/\ ~isDragging
         /\ \/ <<value, rawValue, angle, thumbY>>' # <<value, rawValue, angle, thumbY>>
            \/ notified' # <<>>)
          => ~MoveStep
    ]_vars

\* C16 witness: a drag has taken the raw value of the Knob of range 0..8 and
\* step 2 to 7, which setValue cannot produce, and has ended; the value is as
\* the drag left it.
C16_Witness ==
  /\ kind = "Knob" /\ options.step = N(2) /\ ~destroyed
  /\ ~isDragging /\ docListeners = {} /\ press = "none"
  /\ rawValue = N(7) /\ value = N(8)
  /\ notified = <<>>

\* one toggle pass of a Knob: a toggle event with the power state p and the
\* external value to subscribers of toggle, none twice, and to every one of
\* them, in order, when none unsubscribes another
TogglePass(p) ==
  /\ \A i \in 1..Len(notified') :
       /\ notified'[i].type = "toggle"
       /\ notified'[i].powered = p
       /\ notified'[i].value = getValue
       /\ Has(toggleCallbacks, notified'[i].cb)
  /\ \A i, j \in 1..Len(notified') : notified'[i].cb = notified'[j].cb => i = j
  /\ toggleCallbacks # <<>> => notified' # <<>>
  /\ Passive(toggleCallbacks) => InvokedBy(notified') = toggleCallbacks

\* C17: setPowered(p) with p other than the power state sets the power
\* state to p and makes one toggle pass, whose events carry p and the
\* external value; setPowered with the current power state changes nothing
\* and delivers nothing; toggle() flips the power state and makes one toggle
\* pass.
C17_SetPoweredNotifiesOnChange ==
  [][/\ \A p \in BOOLEAN :
          SetPowered(p) => IF p # powered
                             THEN powered' = p /\ TogglePass(p)
                             ELSE powered' = powered /\ notified' = <<>>
     /\ Toggle => (powered' = ~powered /\ TogglePass(~powered))
    ]_vars

\* C17 witness: two subscribers of toggle have just been told that the Knob
\* was powered off, with its external value.
C17_Witness ==
  /\ kind = "Knob" /\ ~powered
  /\ Len(notified) = 2
  /\ \A i \in 1..2 : /\ notified[i].type = "toggle"
                     /\ notified[i].powered = FALSE
                     /\ notified[i].value = value

\* C18: the step of a constructed control is positive whenever a move
\* sample quantizes with it, so that a sample that starts from a finite raw
\* value leaves a finite or infinite external value, never NaN.
C18_NoDivisionByZeroStep ==
  [][(MoveStep /\ isDragging /\ IsFinite(rawValue))
     => (options.step > 0 /\ getValue' # NaN)]_vars


\* C19: on a toggleable Knob whose gestures start while it is powered off
\* and which is powered on before the release, every move sample of the
\* gesture, dropped by the power gate or not, becomes the last position, and
\* setPowered leaves the last position alone; a sample that arrives after
\* power-on sets the raw value to the clamped sum of the raw value and the
\* delta measured from the last position, and the external value to that
\* raw value rounded to the step, which changes the raw value when the
\* pointer has moved and the sum is within the bounds.
C19_PowerOnMidGesture ==
  [][/\ SetPowered(TRUE) => UNCHANGED lastY
     /\ \A y \in Ys, shiftKey \in BOOLEAN, ctrlKey \in BOOLEAN :
          LET sum == Add(rawValue,
                         KnobValueDelta(lastY - y, shiftKey, ctrlKey))
          IN (/\ isDragging
              /\ \/ MouseMove(y, shiftKey, ctrlKey)
                 \/ (TouchMove(1, y) /\ ~shiftKey /\ ~ctrlKey))
             => /\ lastY' = y
                /\ IF powered
                     THEN /\ rawValue' = KnobClamp(sum)
                          /\ value' = RoundToStep(KnobClamp(sum), options.step)
                          /\ (lastY # y /\ InBounds(sum)) => rawValue' # rawValue
                     ELSE UNCHANGED <<value, rawValue, angle>>
    ]_vars

\* C19 witness: a gesture that started while the Knob was off is in
\* progress, the Knob has been powered on, and a sample has taken the raw
\* value from the constructed 4 to the maximum, which one change event
\* reports.
C19_Witness ==
  /\ ~options.powered /\ powered /\ isDragging
  /\ press = "moved"
  /\ rawValue = N(8) /\ value = N(8)
  /\ Len(notified) = 1 /\ notified[1].type = "change"
  /\ notified[1].previousValue = N(4) /\ notified[1].value = N(8)


\* an event of the given type is among those delivered
Notifies(events, type) == \E i \in 1..Len(events) : events[i].type = type

\* C20: on a Knob, a step that changes the power state is no press, move or
\* release event and no setValue call; a step that changes the raw value,
\* the external value or the angle, or that delivers a change event, is no
\* setPowered and no toggle call.
C20_PowerAndValueIndependent ==
  [][/\ (kind = "Knob" /\ powered' # powered)
          => ~(PressOrReleaseStep \/ MoveStep \/ SetValueStep)
     /\ (/\ kind = "Knob"
         /\ \/ rawValue' # rawValue \/ value' # value \/ angle' # angle
            \/ Notifies(notified', "change"))
          => ~((\E p \in BOOLEAN : SetPowered(p)) \/ Toggle)
    ]_vars

\* C20 witness: while a drag is in progress that has taken the raw value to
\* one that setValue cannot produce, the power state has been switched and
\* the toggle event of the switch is the only event delivered.
C20_Witness ==
  /\ kind = "Knob" /\ isDragging /\ press = "moved"
  /\ rawValue = N(7) /\ value = N(8)
  /\ Len(notified) = 1 /\ notified[1].type = "toggle"
  /\ notified[1].powered = powered /\ notified[1].value = value


\* the events of one toggle notification of a Slider: one for each toggle
\* subscriber, in registration order, with the given states
TogglesFrom(events, previousState, state) ==
  /\ Len(events) = Len(toggleCallbacks)
  /\ \A i \in 1..Len(events) :
       /\ events[i].type = "toggle" /\ events[i].cb = toggleCallbacks[i]
       /\ events[i].previousState = previousState
       /\ events[i].state = state

\* C21: on a Slider, dragging or not, setToggle(s) with s different from
\* the toggle state sets the state to s and notifies the toggle subscribers
\* once with the previous and the new state, setToggle with the current
\* state changes nothing and notifies nobody, and a click on the toggle
\* button flips the state and notifies once; none of them changes the raw
\* value, the external value, the thumb or the drag state; a step that
\* changes the toggle state is no move sample and no setValue call.
C21_SliderToggleIndependent ==
  [][/\ \A s \in BOOLEAN :
          (kind = "Slider" /\ SetToggle(s))
          => /\ UNCHANGED <<rawValue, value, thumbY, isDragging, lastY>>
             /\ toggleState' = s
             /\ IF s # toggleState
                  THEN TogglesFrom(notified', toggleState, s)
                  ELSE notified' = <<>>
     /\ (kind = "Slider" /\ ToggleClick)
          => /\ UNCHANGED <<rawValue, value, thumbY, isDragging, lastY>>
             /\ toggleState' = ~toggleState
             /\ TogglesFrom(notified', toggleState, ~toggleState)
     /\ (kind = "Slider" /\ toggleState' # toggleState)
          => ~(MoveStep \/ SetValueStep)
    ]_vars

\* C21 witness: during a drag that has taken the raw value of a Slider to
\* one that setValue cannot produce, the toggle state has been switched away
\* from the constructed one and the subscriber has been notified of it.
C21_Witness ==
  /\ kind = "Slider" /\ isDragging /\ press = "moved"
  /\ rawValue = N(2)
  /\ toggleState # options.toggleState
  /\ Len(notified) = 1 /\ notified[1].type = "toggle"
  /\ notified[1].previousState = options.toggleState
  /\ notified[1].state = toggleState


\* x is a multiple of the step
MultipleOfStep(x) == options.step > 0 /\ x % options.step = 0

Bounded == IF kind = "Knob" THEN options.mode = "bounded" ELSE TRUE

MinOnly == IF kind = "Knob" THEN options.mode = "min-only" ELSE FALSE

Infinite == IF kind = "Knob" THEN options.mode = "infinite" ELSE FALSE

\* C22: setValue(v) with a finite v leaves getValue() = max when v > max
\* and getValue() = min when v < min on a bounded Knob or a Slider whose
\* min and max are multiples of the step; on a min-only Knob whose min is a
\* multiple of the step it leaves getValue() = min when v < min and the raw
\* value v otherwise; on an infinite Knob it leaves the raw value v.
C22_SetValueClamps ==
  [][\A v \in ValueArgs :
       (IsFinite(v) /\ SetValue(v))
       => /\ (Bounded /\ MultipleOfStep(options.min)
                /\ MultipleOfStep(options.max))
               => /\ v > options.max => getValue' = options.max
                  /\ v < options.min => getValue' = options.min
          /\ MinOnly
               => /\ (MultipleOfStep(options.min) /\ v < options.min)
                       => getValue' = options.min
                  /\ v >= options.min => rawValue' = v
          /\ Infinite => rawValue' = v
    ]_vars

\* C22 witness: with min = 0, max = 10 and step = 1, setValue(-5) has left
\* the value 0 after setValue(15) had left it 10.
C22_Witness ==
  /\ options.min = 0 /\ options.max = N(10) /\ options.step = N(1)
  /\ getValue = 0 /\ rawValue = 0
  /\ Len(notified) = 1 /\ notified[1].type = "change"
  /\ notified[1].previousValue = N(10) /\ notified[1].value = 0


\* m is the multiple of the step nearest to v, the upper one of the two
\* when v is halfway between two multiples
NearestMultiple(m, v) ==
  /\ options.step > 0 /\ m % options.step = 0
  /\ 2 * (m - v) <= options.step
  /\ 2 * (v - m) < options.step

\* C23: setValue(v) with a finite v within the bounds of the mode leaves v
\* as the raw value and, as getValue(), the multiple of the step nearest to
\* v, the upper one for an exact half-step.
C23_SetValueQuantizes ==
  [][\A v \in ValueArgs :
       (IsFinite(v) /\ InBounds(v) /\ SetValue(v))
       => rawValue' = v /\ NearestMultiple(getValue', v)
    ]_vars

\* C23 witness: with step = 0.5, setValue(5.26) has left the value 5.5
\* after setValue(5.24) had left it 5.
C23_Witness ==
  /\ options.step = Q(1, 2)
  /\ rawValue = Q(263, 50) /\ getValue = Q(11, 2)
  /\ Len(notified) = 1 /\ notified[1].type = "change"
  /\ notified[1].previousValue = N(5) /\ notified[1].value = Q(11, 2)


\* C24: the angle of a Knob is the angle of its raw value. In bounded mode
\* with min < max it is startAngle at min, endAngle at max and, for every
\* raw value, startAngle plus the fraction (raw - min) / (max - min) of
\* endAngle - startAngle; in min-only mode it is 27 degrees for each unit
\* above min and in infinite mode 27 degrees for each unit.
C24_AngleIsLinear ==
  (kind = "Knob" /\ IsFinite(rawValue))
  => /\ DegreesPerUnit = 27
     /\ Bounded /\ options.min < options.max
          => /\ rawValue = options.min => angle = options.startAngle
             /\ rawValue = options.max => angle = options.endAngle
             /\ (angle - options.startAngle) * (options.max - options.min)
                  = (rawValue - options.min)
                      * (options.endAngle - options.startAngle)
     /\ MinOnly => angle = DegreesPerUnit * (rawValue - options.min)
     /\ Infinite => angle = DegreesPerUnit * rawValue

\* C24 witness: setValue(5.25) on a Knob bounded by 0 and 10 that turns
\* from -135 to 135 degrees has left the angle 6.75 degrees.
C24_Witness ==
  /\ kind = "Knob" /\ options.mode = "bounded"
  /\ options.min = 0 /\ options.max = N(10)
  /\ options.startAngle = N(0 - 135) /\ options.endAngle = N(135)
  /\ rawValue = Q(21, 4) /\ angle = Q(27, 4)
  /\ Len(notified) = 1 /\ notified[1].angle = Q(27, 4)


\* the range a full sweep of the pixels per range covers
SweepRange ==
  IF kind = "Slider" THEN options.max - options.min ELSE RangeFactor

\* the bounds check of the control
Clamp(x) == IF kind = "Slider" THEN SliderClamp(x) ELSE KnobClamp(x)

\* C25: a touch move sample of p pixels upward, on a Knob or a Slider, sets
\* the raw value to the clamped sum of the raw value and the fraction
\* p / pixels per range of the range, with no multiplier: the delta of a
\* mouse move sample of p pixels with neither Shift nor Ctrl held.
C25_TouchHasNoModifiers ==
  [][LET y == lastY'
         p == lastY - y
         plain == Mul((p * Scale) \div PixelsPerRange, SweepRange)
     IN (/\ isDragging /\ "touchmove" \in docListeners
         /\ ~Gated /\ IsFinite(rawValue)
         /\ TouchMove(1, y))
        => /\ rawValue' = Clamp(Add(rawValue, plain))
           /\ plain = ValueDelta(p, FALSE, FALSE)
    ]_vars

\* C25 witness: while only a touch drag of a Knob is captured, a sample has
\* delivered a change event and left a raw value that setValue cannot
\* produce.
C25_Witness ==
  /\ kind = "Knob" /\ isDragging
  /\ "touchmove" \in docListeners /\ "mousemove" \notin docListeners
  /\ rawValue = N(1)
  /\ Len(notified) = 1 /\ notified[1].type = "change"


C27_MissingBoundsDefaulted ==
  [][/\ \A given \in ConfigKnobOptionSets :
          ConstructKnob(given)
          => /\ options'.mode = "bounded"
                  => /\ options'.min = Coalesce(Given(given, "min"), 0)
                     /\ options'.max = Coalesce(Given(given, "max"), N(10))
                     /\ options'.min # Undefined /\ options'.max # Undefined
             /\ options'.mode = "min-only"
                  => /\ options'.min = Coalesce(Given(given, "min"), 0)
                     /\ options'.min # Undefined
             /\ angle' # NaN
     /\ (kind = "Knob" /\ isDragging /\ IsFinite(rawValue) /\ MoveStep)
          => rawValue' # NaN /\ angle' # NaN
    ]_vars

\* C27 witness: a Knob constructed in bounded mode with min 4 and no max
\* has max 10, and a drag has taken its raw value to 7.
C27_Witness ==
  /\ kind = "Knob" /\ options.mode = "bounded"
  /\ options.min = N(4) /\ options.max = N(10)
  /\ isDragging /\ rawValue = N(7)


\* every element a control of its kind can hold
AllHandles ==
  IF kind = "Slider" THEN {"thumb"} ELSE {"dial", "glow", "power"}

\* what an update with the candidate x leaves, whatever elements are held:
\* the clamped candidate as the raw value, that raw value rounded to the
\* step as the external value, one change event for each subscriber if the
\* external value changed and none otherwise; and, of the visuals, the
\* style of exactly the elements held, each as the new state determines it
UpdatedWith(x) ==
  /\ rawValue' = Clamp(x)
  /\ value' = RoundToStep(Clamp(x), options.step)
  /\ IF value' # value THEN DeliveredOnce(value, value')
     ELSE notified' = <<>>
  /\ IF kind = "Slider"
       THEN "thumb" \in handles
              => thumbY' = thumbPosition(options, trackLength, rawValue')
       ELSE /\ DOMAIN visuals' = handles
            /\ "dial" \in handles => visuals'["dial"].rotate = angle'
            /\ "glow" \in handles => visuals'["glow"].lit = powered
            /\ "power" \in handles => visuals'["power"].lit = powered

C29_ContainerNotFoundRefuses ==
  [][/\ \A given \in ConfigKnobOptionSets :
          ConstructKnobBySelector("#missing", given)
          => /\ thrown' /\ kind' = "none"
             /\ elemListeners' = {} /\ docListeners' = {} /\ handles' = {}
             /\ changeCallbacks' = <<>> /\ toggleCallbacks' = <<>>
             /\ globalConfig' = globalConfig
     /\ \A given \in ConfigSliderOptionSets :
          ConstructSliderBySelector("#missing", given)
          => /\ thrown' /\ kind' = "none"
             /\ elemListeners' = {} /\ docListeners' = {} /\ handles' = {}
             /\ changeCallbacks' = <<>> /\ toggleCallbacks' = <<>>
             /\ globalConfig' = globalConfig
    ]_vars

\* C29 witness: after configureKnobs had changed the defaults, a
\* constructor has thrown; no control exists and the defaults are as
\* configureKnobs left them.
C29_Witness ==
  /\ thrown /\ kind = "none"
  /\ elemListeners = {} /\ handles = {}
  /\ globalConfig.pixelsPerFullRotation = 200
  /\ globalConfig.shiftMultiplier = N(2)


\* C30: in every reachable state of a Knob or Slider the drag flag is set
\* if and only if the control has move/up listeners on the document:
\* isDragging holds exactly when docListeners is not empty, whatever the
\* order of mouse events, touch events and destroy().
C30_DraggingIffCaptured ==
  isDragging <=> docListeners # {}


\* C31: a drag starts only on a left-button mousedown or on a touchstart
\* with exactly one touch, and that press becomes lastY; a mousedown with
\* another button or a touchstart with two touches changes neither
\* isDragging nor the document listeners nor lastY; a mousemove or
\* touchmove received while isDragging is false, and a touchmove with two
\* touches, change none of rawValue, value and lastY.
C31_DragStartsOnlyOnPress ==
  [][/\ (~isDragging /\ isDragging')
          => \E y \in Ys : lastY' = y /\ (MouseDown(0, y) \/ TouchStart(1, y))
     /\ \A y \in Ys :
          lastY' # y => ~(MouseDown(0, y) \/ TouchStart(1, y))
     /\ (isDragging' # isDragging \/ docListeners' # docListeners
           \/ lastY' # lastY)
          => ~(\E y \in Ys : MouseDown(2, y) \/ TouchStart(2, y))
     /\ (rawValue' # rawValue \/ value' # value \/ lastY' # lastY)
          => /\ ~(\E y \in Ys : TouchMove(2, y))
             /\ ~isDragging
                  => ~(\E y \in Ys :
                         \/ TouchMove(1, y)
                         \/ \E shiftKey \in BOOLEAN, ctrlKey \in BOOLEAN :
                              MouseMove(y, shiftKey, ctrlKey))
    ]_vars

\* C31 witness: a left-button press away from the origin has started a
\* drag on a control that was idle, and the press position is lastY.
C31_Witness ==
  /\ isDragging /\ press = "down"
  /\ lastY = GridPx
  /\ docListeners = mouseCapture
  /\ ~destroyed


\* a <= b on numbers: false when either side is NaN
LessEq(a, b) == a # NaN /\ b # NaN /\ a <= b

\* Math.abs
MathAbs(a) == IF a = NaN THEN NaN ELSE IF a < 0 THEN 0 - a ELSE a

\* C32: the raw value is at most half a step away from the value that
\* getValue() returns: |rawValue - value| <= step / 2 in every state
\* (before the first update the two are equal).
C32_RawWithinHalfStep ==
  LessEq(MathAbs(Sub(rawValue, value)), Div(options.step, N(2)))


\* C33: in every state of a Knob the stored angle is valueToAngle of the
\* raw value.
C33_AngleFollowsRaw ==
  kind = "Knob" => angle = valueToAngle(options, rawValue)

\* C33 witness: a drag has left the raw value of a Knob between two steps,
\* where the angle of the stepped value would be another one.
C33_Witness ==
  /\ kind = "Knob" /\ isDragging /\ press = "moved"
  /\ IsFinite(rawValue) /\ rawValue # value
  /\ angle # valueToAngle(options, value)


\* a < b on numbers: false when either side is NaN
Less(a, b) == a # NaN /\ b # NaN /\ a < b

\* the move samples of a drag in progress that arrive at y
MoveSampleAt(y) ==
  /\ isDragging
  /\ \/ TouchMove(1, y)
     \/ \E shiftKey \in BOOLEAN, ctrlKey \in BOOLEAN :
          MouseMove(y, shiftKey, ctrlKey)

\* C34: a move sample above the previous position (y < lastY) decreases
\* neither rawValue nor value, and one below it (y > lastY) increases
\* neither.  (pixelsPerFullRotation, the track length and the multipliers
\* are positive and min < max in every control of Spec.)
C34_UpNeverDecreases ==
  [][/\ (Less(rawValue', rawValue) \/ Less(value', value))
          => ~(\E y \in Ys : y < lastY /\ MoveSampleAt(y))
     /\ (Less(rawValue, rawValue') \/ Less(value, value'))
          => ~(\E y \in Ys : y > lastY /\ MoveSampleAt(y))
    ]_vars


\* the control has both bounds
HasBothBounds == IF kind = "Knob" THEN options.mode = "bounded" ELSE kind = "Slider"

AtMax == HasBothBounds /\ rawValue = options.max

AtMin == HasBothBounds /\ rawValue = options.min

\* the move samples of a drag in progress that arrive at y with the
\* modifiers given and are processed (a touch has no modifiers)
ProcessedSample(y, shiftKey, ctrlKey) ==
  /\ isDragging /\ ~Gated
  /\ \/ MouseMove(y, shiftKey, ctrlKey)
     \/ ~shiftKey /\ ~ctrlKey /\ TouchMove(1, y)

\* C35 as stated: with the raw value at max (or min) during a drag, a
\* sample further in the same direction leaves it there, and a sample in
\* the opposite direction moves it by the sample's full delta.
C35_OppositeSampleMovesFullDelta ==
  [][(AtMax \/ AtMin) =>
       \A y \in Ys, shiftKey \in BOOLEAN, ctrlKey \in BOOLEAN :
         ProcessedSample(y, shiftKey, ctrlKey) =>
           LET d == ValueDelta(lastY - y, shiftKey, ctrlKey)
           IN rawValue' = IF (AtMax /\ d >= 0) \/ (AtMin /\ d <= 0)
                            THEN rawValue
                            ELSE Add(rawValue, d)
    ]_vars

\* C35 amended: with the raw value at max (or min) during a drag, a sample
\* further in the same direction leaves it there, and a sample in the
\* opposite direction moves it by the sample's full delta when that delta
\* is at most max - min, and to the opposite bound when it is larger;
\* where the pointer was when the bound was reached plays no part.
C35_NoOvershootMemory ==
  [][(AtMax \/ AtMin) =>
       \A y \in Ys, shiftKey \in BOOLEAN, ctrlKey \in BOOLEAN :
         ProcessedSample(y, shiftKey, ctrlKey) =>
           LET d == ValueDelta(lastY - y, shiftKey, ctrlKey)
               range == Sub(options.max, options.min)
           IN rawValue' =
                IF (AtMax /\ d >= 0) \/ (AtMin /\ d <= 0) THEN rawValue
                ELSE IF MathAbs(d) <= range THEN Add(rawValue, d)
                ELSE IF AtMax THEN options.min ELSE options.max
    ]_vars

\* C35 witness: during a drag a control that was at max has received a
\* sample one grid step down, and the raw value is that sample's delta
\* below max.
C35_Witness ==
  /\ HasBothBounds /\ isDragging /\ ~Gated
  /\ press = "moved" /\ lastY = GridPx
  /\ Len(notified) > 0
  /\ notified[1].type = "change"
  /\ notified[1].previousValue = options.max
  /\ rawValue = Sub(options.max, ValueDelta(GridPx, FALSE, FALSE))


\* the multiplier of a gesture with the modifier keys given
StrokeMultiplier(shiftKey, ctrlKey) ==
  Mul(IF shiftKey THEN shiftMultiplier ELSE N(1),
      IF ctrlKey THEN ctrlMultiplier ELSE N(1))

\* C36: on a powered Knob in infinite mode, during and after a gesture
\* whose modifier keys do not change, the raw value is the raw value at
\* the press plus (y_press - y_last) / pixelsPerFullRotation * multiplier
\* * 10, however the movement was split into move samples.
C36_RawDependsOnNetDisplacement ==
  stroke.pressed =>
    rawValue =
      Add(stroke.raw,
          Div(Mul(Mul(N(stroke.y - lastY), N(ReferenceRange)),
                  StrokeMultiplier(stroke.shiftKey, stroke.ctrlKey)),
              N(pixelsPerFullRotation)))

\* C36 witness: a gesture with Ctrl held has been released one grid step
\* above its press, and the raw value it leaves is between two steps.
C36_Witness ==
  /\ stroke.pressed /\ stroke.ctrlKey /\ ~stroke.shiftKey
  /\ press = "none" /\ ~isDragging
  /\ stroke.y = GridPx /\ lastY = 0
  /\ rawValue # stroke.raw
  /\ rawValue # value


\* the change events of a notification that were delivered to cb
ChangeEventsTo(events, cb) ==
  SelectSeq(events, LAMBDA ev : ev.type = "change" /\ ev.cb = cb)

\* C37: for a subscriber that is registered before and after a step, the
\* change events form a chain: the step delivers it one change event when
\* the external value changes, with previousValue the value before the step
\* (the value of the event before, or the value at registration) and value
\* the value getValue() returns after it, which differs from previousValue;
\* and the step delivers it no change event when the external value stays.
C37_ChangeEventsChain ==
  [][\A cb \in Callbacks :
       (Has(changeCallbacks, cb) /\ Has(changeCallbacks', cb))
         => LET received == ChangeEventsTo(notified', cb)
            IN IF getValue' # getValue
                 THEN /\ Len(received) = 1
                      /\ received[1].previousValue = getValue
                      /\ received[1].value = getValue'
                 ELSE received = <<>>
    ]_vars


\* a change event for every subscriber, carrying the power state p
ChangeDeliveredWithPower(events, previousValue, v, p) ==
  /\ Len(events) = Len(changeCallbacks)
  /\ \A i \in 1..Len(events) :
       /\ events[i].type = "change" /\ events[i].cb = changeCallbacks[i]
       /\ events[i].previousValue = previousValue
       /\ events[i].value = v /\ events[i].powered = p

\* what an update of a Knob to newValue does, power state aside
UpdatedAsUsual(newValue) ==
  /\ rawValue' = KnobClamp(newValue)
  /\ value' = RoundToStep(KnobClamp(newValue), options.step)
  /\ IF StrictNeq(value', value)
       THEN ChangeDeliveredWithPower(notified', value, value', FALSE)
       ELSE notified' = <<>>

\* C38: on a Knob whose power state is false, setValue updates the raw and
\* the external value and delivers the change event, with powered false,
\* as it does on a powered Knob, also when the Knob is toggleable; and when
\* the Knob is not toggleable a move sample of a drag is processed as on a
\* powered Knob.
C38_GateOnlyOnToggleableDrag ==
  [][(kind = "Knob" /\ ~powered) =>
       /\ (lastY' = lastY /\ press' = press)
            => \A v \in VisualSetArgs :
                 SetValue(v) => UpdatedAsUsual(v)
       /\ (~options.toggleable /\ isDragging)
            => \A y \in Ys :
                 lastY' = y
                   => /\ TouchMove(1, y)
                           => UpdatedAsUsual(
                                Add(rawValue,
                                    KnobValueDelta(lastY - y, FALSE, FALSE)))
                      /\ \A shiftKey \in BOOLEAN, ctrlKey \in BOOLEAN :
                           MouseMove(y, shiftKey, ctrlKey)
                             => UpdatedAsUsual(
                                  Add(rawValue,
                                      KnobValueDelta(lastY - y, shiftKey,
                                                     ctrlKey)))
    ]_vars

\* C38 witness: setValue on a toggleable Knob that is powered off and not
\* being dragged has changed the value, and the subscriber has received the
\* change event with powered false.
C38_Witness ==
  /\ kind = "Knob" /\ options.toggleable /\ ~powered
  /\ press = "none" /\ ~isDragging /\ docListeners = {}
  /\ Len(notified) = 1
  /\ notified[1].type = "change" /\ notified[1].powered = FALSE
  /\ notified[1].value = getValue
  /\ notified[1].previousValue = options.value

====
